---------------------------- MODULE Spec2Model ----------------------------
(***************************************************************************)
(* Settlement and concurrency-safety engine of the TicketToken platform:   *)
(* the resale marketplace program (create / buy / cancel listing) and the  *)
(* primary-sale program (purchase_tickets, list_ticket_on_marketplace).    *)
(*                                                                         *)
(* Numbers.  The programs compute on u64 / u32 values; TLC's integers are  *)
(* 32 bits wide, so every program integer is a natural number written as   *)
(* a little-endian sequence of base-10^4 limbs without a most significant  *)
(* zero limb (<<>> is 0).  The checked_* operators compare against the     *)
(* real 2^64-1, so overflow happens exactly where it happens in the code.  *)
(***************************************************************************)
EXTENDS Integers, Sequences, FiniteSets, TLC

Base == 100 * 100

RECURSIVE Norm(_)
Norm(a) ==
    IF a = <<>> THEN <<>>
    ELSE IF a[Len(a)] = 0 THEN Norm(SubSeq(a, 1, Len(a) - 1)) ELSE a

\* the limbs of a natural given most-significant group first: Dec(<<1, 0>>) is 10000
RECURSIVE Rev(_)
Rev(s) == IF s = <<>> THEN <<>> ELSE Append(Rev(Tail(s)), Head(s))

Dec(groups) == Norm(Rev(groups))

RECURSIVE FromNat(_)
FromNat(n) == IF n = 0 THEN <<>> ELSE <<n % Base>> \o FromNat(n \div Base)

Limb(a, i) == IF i <= Len(a) THEN a[i] ELSE 0

RECURSIVE AddFrom(_, _, _, _)
AddFrom(a, b, i, carry) ==
    IF i > Len(a) /\ i > Len(b)
    THEN (IF carry = 0 THEN <<>> ELSE <<carry>>)
    ELSE LET s == Limb(a, i) + Limb(b, i) + carry
         IN  <<s % Base>> \o AddFrom(a, b, i + 1, s \div Base)

BigAdd(a, b) == Norm(AddFrom(a, b, 1, 0))

RECURSIVE LeqFrom(_, _, _)
LeqFrom(a, b, i) ==
    IF i = 0 THEN TRUE
    ELSE IF a[i] # b[i] THEN a[i] < b[i]
    ELSE LeqFrom(a, b, i - 1)

BigLeq(a, b) ==
    IF Len(a) # Len(b) THEN Len(a) < Len(b) ELSE LeqFrom(a, b, Len(a))

BigLt(a, b) == BigLeq(a, b) /\ a # b

\* a - b for b <= a
RECURSIVE SubFrom(_, _, _, _)
SubFrom(a, b, i, borrow) ==
    IF i > Len(a) THEN <<>>
    ELSE LET d == Limb(a, i) - Limb(b, i) - borrow
         IN  IF d < 0 THEN <<d + Base>> \o SubFrom(a, b, i + 1, 1)
                      ELSE <<d>> \o SubFrom(a, b, i + 1, 0)

BigSub(a, b) == Norm(SubFrom(a, b, 1, 0))

\* a * k for a machine-size k <= 2^16
RECURSIVE MulFrom(_, _, _, _)
MulFrom(a, k, i, carry) ==
    IF i > Len(a) THEN FromNat(carry)
    ELSE LET p == a[i] * k + carry
         IN  <<p % Base>> \o MulFrom(a, k, i + 1, p \div Base)

BigMulSmall(a, k) == Norm(MulFrom(a, k, 1, 0))

\* floor(a / k) for a machine-size k in 1 .. 2^16: long division, most
\* significant limb first
RECURSIVE DivFrom(_, _, _, _)
DivFrom(a, k, i, rem) ==
    IF i = 0 THEN <<>>
    ELSE LET cur == rem * Base + a[i]
         IN  Append(DivFrom(a, k, i - 1, cur % k), cur \div k)

BigDivSmall(a, k) == Norm(DivFrom(a, k, Len(a), 0))

\* x as u32: x mod 2^32
AsU32(x) ==
    LET q == BigDivSmall(BigDivSmall(x, 65536), 65536)
    IN  BigSub(x, BigMulSmall(BigMulSmall(q, 65536), 65536))

Zero == <<>>
One == <<1>>
U64_MAX == Dec(<<1844, 6744, 737, 955, 1615>>)
U32_MAX == Dec(<<42, 9496, 7295>>)


(***************************************************************************)
(* Checked arithmetic (Rust's Option-returning checked_* on u64).          *)
(***************************************************************************)
Some(v) == [ok |-> TRUE, v |-> v]
NoneV == [ok |-> FALSE, v |-> Zero]

checked_mul(a, k) ==
    LET p == BigMulSmall(a, k) IN IF BigLeq(p, U64_MAX) THEN Some(p) ELSE NoneV

checked_div(a, k) == IF k = 0 THEN NoneV ELSE Some(BigDivSmall(a, k))

checked_add(a, b) ==
    LET s == BigAdd(a, b) IN IF BigLeq(s, U64_MAX) THEN Some(s) ELSE NoneV

checked_sub(a, b) == IF BigLeq(b, a) THEN Some(BigSub(a, b)) ELSE NoneV

\* a.checked_mul(k).ok_or(MathOverflow)?.checked_div(d).ok_or(MathOverflow)?
MulDiv(a, k, d) ==
    LET p == checked_mul(a, k) IN IF p.ok THEN checked_div(p.v, d) ELSE NoneV

BPS_DENOMINATOR == 10000
VENUE_ROYALTY_BPS == 500
PRICE_CAP_PERCENT == 110
MAX_TICKET_PURCHASE == 10
PLATFORM_FEE_CAP == 1000

(***************************************************************************)
(* marketplace/src/utils/reentrancy.rs and                                 *)
(* tickettoken/src/utils/reentrancy.rs: the two guards are the same code.  *)
(* lock and unlock work on the ReentrancyGuard value they are given (the   *)
(* &mut self of the handler's deserialized account).                       *)
(***************************************************************************)
\* lock without the check of the flag
GuardLockUnchecked(g) == [err |-> "ok", guard |-> [g EXCEPT !.is_locked = TRUE]]

\* lock that checks the flag and does not set it
GuardLockLeavesFlag(g) ==
    IF g.is_locked
    THEN [err |-> "ReentrancyLocked", guard |-> g]
    ELSE [err |-> "ok", guard |-> g]

GuardLock(g) ==
    IF g.is_locked
    THEN [err |-> "ReentrancyLocked", guard |-> g]
    ELSE [err |-> "ok", guard |-> [g EXCEPT !.is_locked = TRUE]]

\* unlock that leaves the flag as it is
GuardUnlockKeepsFlag(g) == [err |-> "ok", guard |-> g]

\* unlock that flips the flag
GuardUnlockToggles(g) == [err |-> "ok", guard |-> [g EXCEPT !.is_locked = ~@]]

GuardUnlock(g) == [err |-> "ok", guard |-> [g EXCEPT !.is_locked = FALSE]]

(***************************************************************************)
(* marketplace/src/state/listing.rs                                        *)
(***************************************************************************)
\* the cap with 120 for 110
validate_price_cap_120(price, original_price) ==
    LET max_price == MulDiv(original_price, 120, 100)
    IN  IF ~max_price.ok THEN "MathOverflow"
        ELSE IF ~BigLeq(price, max_price.v) THEN "PriceCapExceeded"
        ELSE "ok"

\* the cap computed and never compared with the price
validate_price_cap_not_compared(price, original_price) ==
    LET max_price == MulDiv(original_price, PRICE_CAP_PERCENT, 100)
    IN  IF ~max_price.ok THEN "MathOverflow" ELSE "ok"

validate_price_cap(price, original_price) ==
    LET max_price == MulDiv(original_price, PRICE_CAP_PERCENT, 100)
    IN  IF ~max_price.ok THEN "MathOverflow"
        ELSE IF ~BigLeq(price, max_price.v) THEN "PriceCapExceeded"
        ELSE "ok"

\* listing.rs lines 40-47: the cap computed in 128 bits, where neither the
\* product nor the quotient saturates for a 64-bit original_price, and then
\* cast to u64, which keeps the low 64 bits
is_within_price_cap(price, original_price) ==
    LET wide == BigDivSmall(BigMulSmall(original_price, 110), 100)
        max_price == IF BigLeq(wide, U64_MAX) THEN wide
                     ELSE BigSub(wide, BigAdd(U64_MAX, One))
    IN  BigLeq(price, max_price)

\* expiry that includes the instant expires_at
is_expired_inclusive(listing, current_timestamp) ==
    current_timestamp >= listing.expires_at

is_expired(listing, current_timestamp) == current_timestamp > listing.expires_at

(***************************************************************************)
(* buy_listing.rs lines 58-76: the three amounts of a sale.                *)
(***************************************************************************)
\* the amounts with the royalty left in the seller's share
BuyAmountsRoyaltyKept(price, fee_bps) ==
    LET marketplace_fee == MulDiv(price, fee_bps, BPS_DENOMINATOR)
        venue_royalty == MulDiv(price, VENUE_ROYALTY_BPS, BPS_DENOMINATOR)
        seller_amount == IF marketplace_fee.ok
                         THEN checked_sub(price, marketplace_fee.v) ELSE NoneV
    IN  IF marketplace_fee.ok /\ venue_royalty.ok /\ seller_amount.ok
        THEN [err |-> "ok", marketplace_fee |-> marketplace_fee.v,
              venue_royalty |-> venue_royalty.v, seller_amount |-> seller_amount.v]
        ELSE [err |-> "MathOverflow", marketplace_fee |-> Zero,
              venue_royalty |-> Zero, seller_amount |-> Zero]

\* the amounts with the operands of the first subtraction exchanged
BuyAmountsFeeMinusPrice(price, fee_bps) ==
    LET marketplace_fee == MulDiv(price, fee_bps, BPS_DENOMINATOR)
        venue_royalty == MulDiv(price, VENUE_ROYALTY_BPS, BPS_DENOMINATOR)
        after_fee == IF marketplace_fee.ok
                     THEN checked_sub(marketplace_fee.v, price) ELSE NoneV
        seller_amount == IF after_fee.ok /\ venue_royalty.ok
                         THEN checked_sub(after_fee.v, venue_royalty.v) ELSE NoneV
    IN  IF marketplace_fee.ok /\ venue_royalty.ok /\ seller_amount.ok
        THEN [err |-> "ok", marketplace_fee |-> marketplace_fee.v,
              venue_royalty |-> venue_royalty.v, seller_amount |-> seller_amount.v]
        ELSE [err |-> "MathOverflow", marketplace_fee |-> Zero,
              venue_royalty |-> Zero, seller_amount |-> Zero]

BuyAmounts(price, fee_bps) ==
    LET marketplace_fee == MulDiv(price, fee_bps, BPS_DENOMINATOR)
        venue_royalty == MulDiv(price, VENUE_ROYALTY_BPS, BPS_DENOMINATOR)
        after_fee == IF marketplace_fee.ok
                     THEN checked_sub(price, marketplace_fee.v) ELSE NoneV
        seller_amount == IF after_fee.ok /\ venue_royalty.ok
                         THEN checked_sub(after_fee.v, venue_royalty.v) ELSE NoneV
    IN  IF marketplace_fee.ok /\ venue_royalty.ok /\ seller_amount.ok
        THEN [err |-> "ok", marketplace_fee |-> marketplace_fee.v,
              venue_royalty |-> venue_royalty.v, seller_amount |-> seller_amount.v]
        ELSE [err |-> "MathOverflow", marketplace_fee |-> Zero,
              venue_royalty |-> Zero, seller_amount |-> Zero]


(***************************************************************************)
(* Bounds and input sets.                                                  *)
(***************************************************************************)
MaxTime == 2         \* the clock runs 0 .. MaxTime
MaxDepth == 2        \* instruction invocations in flight at once
MaxSales == 2        \* buy_listing invocations that get past their checks

Users == {"alice", "bob"}
Buyers == {"carol"}
Wallets == Users \cup Buyers \cup {"treasury", "venue_treasury"}
Assets == {"t1"}
\* a Listing lives at the address derived from (seller, asset_id); its guard
\* at the address derived from the listing's address
ListingKeys == Users \X Assets
Venues == {"v1"}
EventKeys == {"e1", "e2"}

Sol(n) == BigMulSmall(Dec(<<10, 0, 0>>), n)      \* n * 10^9 lamports

\* the least original price whose 110% does not fit the u64 multiplication,
\* and the 110% of it
BigOriginal == BigAdd(BigDivSmall(U64_MAX, 110), One)
BigOriginalCap == BigDivSmall(BigMulSmall(BigOriginal, 110), 100)
\* the largest original price whose 110% fits
LargestOriginal == BigDivSmall(U64_MAX, 110)

\* (price, original_price) pairs offered to create_listing
PricePairs ==
    { <<Sol(55), Sol(50)>>,                      \* exactly 110%
      <<Sol(60), Sol(50)>>,                      \* 120%: over the cap
      <<FromNat(13), FromNat(13)>>,              \* both fees round to zero
      <<Zero, Zero>>,                            \* a free listing: all amounts zero
      <<LargestOriginal, LargestOriginal>>,      \* the largest original price accepted
      <<BigOriginalCap, BigOriginal>>,           \* exactly 110% of a big price
      <<BigAdd(BigOriginalCap, One), BigOriginal>> }     \* and one above

\* what each seller offers to create_listing: alice every pair, bob the two
\* that give a listing a buyer can pay
SellerOffers ==
    [u \in Users |-> IF u = "alice" THEN PricePairs
                     ELSE {<<Sol(55), Sol(50)>>, <<FromNat(13), FromNat(13)>>}]

FeeBpsInputs == {0, 750, 1000, 1001}
ExpiryInputs == {1}
ListingEvents == {"e1"}

\* arguments offered to purchase_tickets and list_ticket_on_marketplace
QuantityInputs == {0, 1, 2, 11}
SeatInputs == {One, U32_MAX}
BridgePrices == {Sol(44), Sol(45)}
BridgeExpiryInputs == {1, 3}
BridgeOwners == {"alice"}
\* the fee initialize_platform was given, in the primary market
PlatformFeeInputs == {0, 250}
\* Pubkey::default(), the key initialize_platform refuses as treasury
DefaultPubkey == "default"
PlatformTreasuryInputs == {"treasury", DefaultPubkey}

NoAccount == [exists |-> FALSE]
NoSnap == [exists |-> FALSE]
NoCall == [op |-> "none", key |-> "none", res |-> "none", depth |-> 0,
           step |-> "none"]

VARIABLES
    market,     \* what the behaviour exercises: "resale", "primary", "setup"
                \* or "bridge"
    clock,      \* Clock::get()?.unix_timestamp
    chain,      \* account data and lamports as stored on the ledger
    ghost,      \* records emitted by the instructions that committed
    stack,      \* instruction invocations in flight, innermost last
    snapshot,   \* ledger state at the start of the transaction in flight
    last        \* the most recent invocation and how it ended

vars == <<market, clock, chain, ghost, stack, snapshot, last>>

Depth == Len(stack)
InFlight == stack # <<>>
Top == stack[Len(stack)]

\* An invocation may start at top level, or from inside a fund transfer of the
\* invocation in flight (spec section 5: the receiving party can be programmable).
TransferPcs == {"transfer_seller", "transfer_fee", "transfer_royalty",
                "transfer_venue", "transfer_platform_fee"}
CanInvoke == \/ ~InFlight
             \/ InFlight /\ Depth < MaxDepth /\ Top.pc \in TransferPcs

\* A behaviour exercises one of the two markets: the resale marketplace, with
\* the bridge that lists on it, or the primary sale.  The two keep their
\* state in different accounts.
Resale == market = "resale"
Primary == market = "primary"
\* ... or the initialization of the two programs, from a ledger without their
\* configuration accounts
Setup == market = "setup"
\* ... or the bridge from the primary-sale program to the marketplace
Bridge == market = "bridge"

\* The nested invocations explored are those of the instructions that settle
\* or destroy a resource; the others are invoked at top level.
TopLevel == ~InFlight

\* The ledger state every failure returns to: a failed instruction fails the
\* whole transaction, and none of the transaction's writes commit.
Committed == IF InFlight THEN snapshot ELSE [exists |-> TRUE, chain |-> chain, ghost |-> ghost]

Fail(call) ==
    /\ chain' = Committed.chain
    /\ ghost' = Committed.ghost
    /\ stack' = <<>>
    /\ snapshot' = NoSnap
    /\ last' = call
    /\ UNCHANGED <<market, clock>>

\* Ok from an instruction that issued no transfer (it ran in one step).
ReturnDirect(call) ==
    /\ last' = call
    /\ UNCHANGED <<market, clock, stack, snapshot>>

\* Ok from the innermost invocation in flight: back to its invoker, or, at
\* top level, the transaction commits.
ReturnTop(call) ==
    /\ stack' = SubSeq(stack, 1, Len(stack) - 1)
    /\ snapshot' = IF Len(stack) = 1 THEN NoSnap ELSE snapshot
    /\ last' = call
    /\ UNCHANGED <<market, clock>>

\* Entering an invocation that will issue transfers.
Enter(frame, call) ==
    /\ stack' = Append(stack, frame)
    /\ snapshot' = IF InFlight THEN snapshot
                   ELSE [exists |-> TRUE, chain |-> chain, ghost |-> ghost]
    /\ last' = call
    /\ UNCHANGED <<market, clock, chain, ghost>>

IsLocked(g) == g.exists /\ g.is_locked


(***************************************************************************)
(* Anchor account plumbing, as the #[derive(Accounts)] attributes of the   *)
(* source request it.  A handler works on the values deserialized from the *)
(* account data when the instruction started (Account<'info, T>); the      *)
(* values are written back when the handler has returned Ok, and only for  *)
(* accounts marked `mut` or `init`; `close = x` empties the account        *)
(* instead.  An account closed meanwhile is not written.                   *)
(***************************************************************************)
Persist(stored, value) == IF stored.exists THEN value ELSE stored

\* u64 `x += 1`: exact below the top of the range; at u64::MAX the build
\* decides (overflow-checks on: panic; off: wrap to 0)
PlusOne(x) ==
    IF x # U64_MAX THEN {Some(BigAdd(x, One))} ELSE {NoneV, Some(Zero)}

\* system_program::transfer(from, to, amount) on the lamports
CanPay(lamports, from, amount) == BigLeq(amount, lamports[from])

Pay(lamports, from, to, amount) ==
    IF from = to THEN lamports
    ELSE [lamports EXCEPT ![from] = BigSub(@, amount), ![to] = BigAdd(@, amount)]

Call(op, key, res) ==
    [op |-> op, key |-> key, res |-> res, depth |-> Depth + 1, step |-> "entry"]

(***************************************************************************)
(* marketplace/src/instructions/initialize_marketplace.rs                  *)
(***************************************************************************)
\* the handler without its check of the fee
initialize_marketplace_any_fee(authority, fee_bps, treasury) ==
    /\ Setup
    /\ TopLevel
    /\ LET call(res) == Call("initialize_marketplace", "marketplace", res) @@
                        [fee_bps |-> fee_bps]
       IN  IF chain.marketplace.exists THEN Fail(call("AccountInUse"))
           ELSE /\ chain' = [chain EXCEPT !.marketplace =
                        [exists |-> TRUE, authority |-> authority,
                         fee_bps |-> fee_bps, paused |-> FALSE,
                         total_listings |-> Zero, total_sales |-> Zero,
                         total_volume |-> Zero, treasury |-> treasury]]
                /\ UNCHANGED ghost
                /\ ReturnDirect(call("ok"))

\* the handler creating the marketplace paused
initialize_marketplace_paused(authority, fee_bps, treasury) ==
    /\ Setup
    /\ TopLevel
    /\ LET call(res) == Call("initialize_marketplace", "marketplace", res) @@
                        [fee_bps |-> fee_bps]
       IN  IF chain.marketplace.exists THEN Fail(call("AccountInUse"))
           ELSE IF ~(fee_bps <= 1000) THEN Fail(call("PriceCapExceeded"))
           ELSE /\ chain' = [chain EXCEPT !.marketplace =
                        [exists |-> TRUE, authority |-> authority,
                         fee_bps |-> fee_bps, paused |-> TRUE,
                         total_listings |-> Zero, total_sales |-> Zero,
                         total_volume |-> Zero, treasury |-> treasury]]
                /\ UNCHANGED ghost
                /\ ReturnDirect(call("ok"))

initialize_marketplace(authority, fee_bps, treasury) ==
    /\ Setup
    /\ TopLevel
    /\ LET call(res) == Call("initialize_marketplace", "marketplace", res) @@
                        [fee_bps |-> fee_bps]
       IN  IF chain.marketplace.exists THEN Fail(call("AccountInUse"))
           ELSE IF ~(fee_bps <= 1000) THEN Fail(call("PriceCapExceeded"))
           ELSE /\ chain' = [chain EXCEPT !.marketplace =
                        [exists |-> TRUE, authority |-> authority,
                         fee_bps |-> fee_bps, paused |-> FALSE,
                         total_listings |-> Zero, total_sales |-> Zero,
                         total_volume |-> Zero, treasury |-> treasury]]
                /\ UNCHANGED ghost
                /\ ReturnDirect(call("ok"))

(***************************************************************************)
(* marketplace/src/instructions/create_listing.rs                          *)
(***************************************************************************)
CreateListingBody(seller, key, event, asset_id, price, original_price, expires_at) ==
    LET current_time == clock
        listing == [exists |-> TRUE, seller |-> seller, event |-> event,
                    ticket_asset_id |-> asset_id, price |-> price,
                    original_price |-> original_price,
                    expires_at |-> expires_at, active |-> TRUE]
        cap == validate_price_cap(listing.price, listing.original_price)
        \* marketplace.total_listings += 1 on the handler's value
        incs == PlusOne(chain.marketplace.total_listings)
    IN  IF ~(expires_at > current_time) THEN {[err |-> "InvalidExpiry"]}
        ELSE IF cap # "ok" THEN {[err |-> cap]}
        ELSE { IF inc.ok
               THEN [err |-> "ok", listing |-> listing,
                     marketplace |-> [chain.marketplace EXCEPT !.total_listings = inc.v],
                     reentrancy_guard |-> [exists |-> TRUE, is_locked |-> FALSE]]
               ELSE [err |-> "Panic"] : inc \in incs }

\* exit of CreateListing: listing and reentrancy_guard are `init` and are
\* written; marketplace carries no `mut` and is not
CreateListingExit(out, key) ==
    [chain EXCEPT !.listings[key] = out.listing,
                  !.guards[key] = out.reentrancy_guard]

\* lines 6-48: the account constraints of CreateListing, in declaration order
CreateListingAccounts(key) ==
    IF ~chain.marketplace.exists THEN "AccountNotInitialized"
    ELSE IF chain.marketplace.paused THEN "MarketplacePaused"
    ELSE IF chain.listings[key].exists \/ chain.guards[key].exists
         THEN "AccountInUse"
    ELSE "ok"

\* the instruction from entry to exit: the results it can end with, and the
\* ledger each leaves; a success also carries the handler's own values of the
\* marketplace and of the guard
CreateListingRun(seller, asset_id, price, original_price, expires_at, event) ==
    LET key == <<seller, asset_id>>
        accounts == CreateListingAccounts(key)
    IN  IF accounts # "ok" THEN {[err |-> accounts, chain |-> chain]}
        ELSE { IF out.err # "ok" THEN [err |-> out.err, chain |-> chain]
               ELSE [err |-> "ok", chain |-> CreateListingExit(out, key),
                     marketplace |-> out.marketplace,
                     reentrancy_guard |-> out.reentrancy_guard] :
               out \in CreateListingBody(seller, key, event, asset_id, price,
                                         original_price, expires_at) }

\* what a successful creation leaves in the records
ListingCreated(key) == [ghost EXCEPT !.sold[key] = 0, !.cancelled[key] = 0]

create_listing(seller, asset_id, price, original_price, expires_at, event) ==
    /\ Resale
    /\ TopLevel
    /\ LET key == <<seller, asset_id>>
           call(res) == Call("create_listing", key, res) @@
                        [price |-> price, original_price |-> original_price,
                         expires_at |-> expires_at]
       IN  \E run \in CreateListingRun(seller, asset_id, price, original_price,
                                        expires_at, event) :
             IF run.err # "ok" THEN Fail(call(run.err))
             ELSE /\ chain' = run.chain
                  /\ ghost' = ListingCreated(key)
                  /\ ReturnDirect(call("ok") @@
                        [total_listings_before |-> chain.marketplace.total_listings,
                         total_listings |-> run.marketplace.total_listings,
                         guard_held |-> run.reentrancy_guard.is_locked])


(***************************************************************************)
(* marketplace/src/instructions/buy_listing.rs                             *)
(***************************************************************************)
\* lines 12-17, 38-46: the account constraints of BuyListing
BuyListingAccounts(key) ==
    LET listing == chain.listings[key]
    IN  IF ~listing.exists THEN "AccountNotInitialized"
        ELSE IF ~listing.active THEN "ListingNotActive"
        ELSE IF is_expired(listing, clock) THEN "ListingExpired"
        ELSE IF ~chain.marketplace.exists \/ ~chain.guards[key].exists
             THEN "AccountNotInitialized"
        ELSE "ok"

\* the entry with one guard for the whole marketplace, held by whatever
\* buy_listing is in flight
BuyListingEntryOneGuard(buyer, key, seller, marketplace_treasury, venue_treasury) ==
    LET listing == chain.listings[key]
        marketplace == chain.marketplace
        locked == IF \E i \in DOMAIN stack : stack[i].op = "buy_listing"
                  THEN [err |-> "ReentrancyLocked", guard |-> chain.guards[key]]
                  ELSE GuardLock(chain.guards[key])
        amounts == BuyAmounts(listing.price, marketplace.fee_bps)
    IN  IF locked.err # "ok" THEN [err |-> locked.err]
        ELSE IF amounts.err # "ok" THEN [err |-> amounts.err]
        ELSE [err |-> "ok",
              frame |-> [op |-> "buy_listing", key |-> key, pc |-> "transfer_seller",
                         buyer |-> buyer, seller |-> seller,
                         marketplace_treasury |-> marketplace_treasury,
                         venue_treasury |-> venue_treasury,
                         listing |-> listing, marketplace |-> marketplace,
                         reentrancy_guard |-> locked.guard,
                         marketplace_fee |-> amounts.marketplace_fee,
                         venue_royalty |-> amounts.venue_royalty,
                         seller_amount |-> amounts.seller_amount,
                         guard_before |-> chain.guards[key].is_locked]]

\* lines 51-76: lock, then the amounts, on the deserialized accounts
BuyListingEntry(buyer, key, seller, marketplace_treasury, venue_treasury) ==
    LET listing == chain.listings[key]
        marketplace == chain.marketplace
        locked == GuardLock(chain.guards[key])
        amounts == BuyAmounts(listing.price, marketplace.fee_bps)
    IN  IF locked.err # "ok" THEN [err |-> locked.err]
        ELSE IF amounts.err # "ok" THEN [err |-> amounts.err]
        ELSE [err |-> "ok",
              frame |-> [op |-> "buy_listing", key |-> key, pc |-> "transfer_seller",
                         buyer |-> buyer, seller |-> seller,
                         marketplace_treasury |-> marketplace_treasury,
                         venue_treasury |-> venue_treasury,
                         listing |-> listing, marketplace |-> marketplace,
                         reentrancy_guard |-> locked.guard,
                         marketplace_fee |-> amounts.marketplace_fee,
                         venue_royalty |-> amounts.venue_royalty,
                         seller_amount |-> amounts.seller_amount,
                         guard_before |-> chain.guards[key].is_locked]]

SalesStarted ==
    ghost.sales + Cardinality({i \in DOMAIN stack : stack[i].op = "buy_listing"})

buy_listing(buyer, key, seller, marketplace_treasury, venue_treasury) ==
    /\ Resale
    /\ CanInvoke
    /\ SalesStarted < MaxSales
    /\ LET call(res) == Call("buy_listing", key, res)
           accounts == BuyListingAccounts(key)
       IN  IF accounts # "ok" THEN Fail(call(accounts))
           ELSE LET entry == BuyListingEntry(buyer, key, seller,
                                             marketplace_treasury, venue_treasury)
                IN  IF entry.err # "ok" THEN Fail(call(entry.err))
                    ELSE Enter(entry.frame, call("in_flight"))

\* lines 78-116: the transfers, in program order; the fee and the royalty
\* are skipped when zero
BuyAfterFee(f) == IF f.venue_royalty # Zero THEN "transfer_royalty" ELSE "finish"
\* the fee transfer issued whatever the amount
BuyAfterSellerAlways(f) == "transfer_fee"
BuyAfterSeller(f) == IF f.marketplace_fee # Zero THEN "transfer_fee" ELSE BuyAfterFee(f)

BuyTransfer(f) ==
    CASE f.pc = "transfer_seller" ->
            [to |-> f.seller, amount |-> f.seller_amount, next |-> BuyAfterSeller(f)]
      [] f.pc = "transfer_fee" ->
            [to |-> f.marketplace_treasury, amount |-> f.marketplace_fee,
             next |-> BuyAfterFee(f)]
      [] f.pc = "transfer_royalty" ->
            [to |-> f.venue_treasury, amount |-> f.venue_royalty, next |-> "finish"]

\* the end of the handler with total_volume added without the check
BuyListingFinishWrapping(f) ==
    LET listing == [f.listing EXCEPT !.active = FALSE]
        sum == BigAdd(f.marketplace.total_volume, listing.price)
        volume == IF BigLeq(sum, U64_MAX) THEN sum
                  ELSE BigSub(sum, BigAdd(U64_MAX, One))
        unlocked == GuardUnlock(f.reentrancy_guard)
    IN  { IF ~sales.ok THEN [err |-> "Panic"]
          ELSE [err |-> "ok", listing |-> listing,
                marketplace |-> [f.marketplace EXCEPT !.total_sales = sales.v,
                                                      !.total_volume = volume],
                reentrancy_guard |-> unlocked.guard] :
          sales \in PlusOne(f.marketplace.total_sales) }

\* lines 118-145: mark sold, statistics, record, unlock
BuyListingFinish(f) ==
    LET listing == [f.listing EXCEPT !.active = FALSE]
        volume == checked_add(f.marketplace.total_volume, listing.price)
        unlocked == GuardUnlock(f.reentrancy_guard)
    IN  { IF ~sales.ok THEN [err |-> "Panic"]
          ELSE IF ~volume.ok THEN [err |-> "MathOverflow"]
          ELSE [err |-> "ok", listing |-> listing,
                marketplace |-> [f.marketplace EXCEPT !.total_sales = sales.v,
                                                      !.total_volume = volume.v],
                reentrancy_guard |-> unlocked.guard] :
          sales \in PlusOne(f.marketplace.total_sales) }

\* exit of BuyListing: listing, marketplace and reentrancy_guard are `mut`
BuyListingExit(out, key) ==
    [chain EXCEPT !.listings[key] = Persist(@, out.listing),
                  !.marketplace = Persist(@, out.marketplace),
                  !.guards[key] = Persist(@, out.reentrancy_guard)]

buy_listing_finish ==
    /\ InFlight
    /\ Top.op = "buy_listing"
    /\ Top.pc = "finish"
    /\ LET f == Top
           call(res) == [op |-> "buy_listing", key |-> f.key, res |-> res,
                         depth |-> Depth, step |-> f.pc]
       IN  \E out \in BuyListingFinish(f) :
             IF out.err # "ok" THEN Fail(call(out.err))
             ELSE /\ chain' = BuyListingExit(out, f.key)
                  /\ ghost' = [ghost EXCEPT
                         !.sold[f.key] = @ + 1, !.sales = @ + 1,
                         !.listings_sold = IF ghost.sold[f.key] = 0 THEN @ + 1 ELSE @,
                         !.volume_sold = IF ghost.sold[f.key] = 0
                                         THEN BigAdd(@, f.listing.price) ELSE @]
                  /\ ReturnTop(call("ok") @@
                               [guard_before |-> f.guard_before,
                                guard_held |-> f.reentrancy_guard.is_locked,
                                guard_after |-> IsLocked(chain'.guards[f.key]),
                                seller |-> f.seller,
                                listing_seller |-> f.listing.seller])

(***************************************************************************)
(* marketplace/src/instructions/cancel_listing.rs                          *)
(***************************************************************************)
\* the constraints without the one on listing.active
CancelListingAccountsAnyState(seller, key) ==
    LET listing == chain.listings[key]
    IN  IF ~listing.exists THEN "AccountNotInitialized"
        ELSE IF listing.seller # seller THEN "Unauthorized"
        ELSE IF ~chain.guards[key].exists THEN "AccountNotInitialized"
        ELSE "ok"

\* the constraints without the one on the caller
CancelListingAccountsAnyCaller(seller, key) ==
    LET listing == chain.listings[key]
    IN  IF ~listing.exists THEN "AccountNotInitialized"
        ELSE IF ~listing.active THEN "ListingNotActive"
        ELSE IF ~chain.guards[key].exists THEN "AccountNotInitialized"
        ELSE "ok"

\* the constraints with a check of the guard added: no cancel while a
\* buy_listing of the listing holds it
CancelListingAccountsGuarded(seller, key) ==
    LET listing == chain.listings[key]
    IN  IF ~listing.exists THEN "AccountNotInitialized"
        ELSE IF listing.seller # seller THEN "Unauthorized"
        ELSE IF ~listing.active THEN "ListingNotActive"
        ELSE IF ~chain.guards[key].exists THEN "AccountNotInitialized"
        ELSE IF \E i \in DOMAIN stack : stack[i].key = key /\ stack[i].reentrancy_guard.is_locked
             THEN "ReentrancyLocked"
        ELSE "ok"

CancelListingAccounts(seller, key) ==
    LET listing == chain.listings[key]
    IN  IF ~listing.exists THEN "AccountNotInitialized"
        ELSE IF listing.seller # seller THEN "Unauthorized"
        ELSE IF ~listing.active THEN "ListingNotActive"
        ELSE IF ~chain.guards[key].exists THEN "AccountNotInitialized"
        ELSE "ok"

\* an exit that closes neither account
CancelListingExitKeeps(key) == chain

\* exit of CancelListing: `close = seller` on both accounts
CancelListingExit(key) ==
    [chain EXCEPT !.listings[key] = NoAccount, !.guards[key] = NoAccount]

cancel_listing(seller, key) ==
    /\ Resale
    /\ CanInvoke
    /\ LET call(res) == Call("cancel_listing", key, res) @@ [seller |-> seller]
           accounts == CancelListingAccounts(seller, key)
       IN  IF accounts # "ok" THEN Fail(call(accounts))
           ELSE /\ chain' = CancelListingExit(key)
                /\ ghost' = [ghost EXCEPT !.cancelled[key] = @ + 1]
                /\ ReturnDirect(call("ok"))

(***************************************************************************)
(* tickettoken/src/utils/mod.rs                                            *)
(***************************************************************************)
safe_add(a, b) == checked_add(a, b)

safe_mul(a, k) == checked_mul(a, k)

\* the fee as a share of a thousand
calculate_fee_per_mille(amount, fee_bps) ==
    LET fee == safe_mul(amount, fee_bps)
    IN  IF fee.ok THEN checked_div(fee.v, 1000) ELSE NoneV

\* the fee with the division before the multiplication
calculate_fee_divide_first(amount, fee_bps) ==
    LET share == checked_div(amount, 10000)
    IN  IF share.ok THEN safe_mul(share.v, fee_bps) ELSE NoneV

calculate_fee(amount, fee_bps) ==
    LET fee == safe_mul(amount, fee_bps)
    IN  IF fee.ok THEN checked_div(fee.v, 10000) ELSE NoneV

(***************************************************************************)
(* tickettoken/src/instructions/initialize_platform.rs                     *)
(***************************************************************************)
initialize_platform(owner, fee_bps, treasury) ==
    /\ Setup
    /\ TopLevel
    /\ LET call(res) == Call("initialize_platform", "platform", res) @@
                        [fee_bps |-> fee_bps]
       IN  IF chain.platform.exists THEN Fail(call("AccountInUse"))
           ELSE IF ~(fee_bps <= PLATFORM_FEE_CAP) THEN Fail(call("FeeTooHigh"))
           ELSE IF ~(treasury # DefaultPubkey) THEN Fail(call("InvalidTreasury"))
           ELSE /\ chain' = [chain EXCEPT !.platform =
                        [exists |-> TRUE, owner |-> owner, treasury |-> treasury,
                         fee_bps |-> fee_bps, paused |-> FALSE]]
                /\ UNCHANGED ghost
                /\ ReturnDirect(call("ok"))

(***************************************************************************)
(* tickettoken/src/instructions/purchase_tickets.rs                        *)
(***************************************************************************)
\* lines 15-59: the account constraints of PurchaseTickets
PurchaseTicketsAccounts(venue_key, event_key, platform_treasury) ==
    LET venue == chain.venues[venue_key]
        event == chain.events[event_key]
    IN  IF ~chain.platform.exists \/ ~venue.exists THEN "AccountNotInitialized"
        ELSE IF ~venue.verified THEN "VenueNotVerified"
        ELSE IF ~venue.active THEN "VenueInactive"
        ELSE IF ~event.exists THEN "AccountNotInitialized"
        ELSE IF event.venue # venue_key THEN "InvalidEventVenue"
        ELSE IF platform_treasury # chain.platform.treasury THEN "InvalidTreasury"
        ELSE IF ~chain.event_guards[event_key].exists THEN "AccountNotInitialized"
        ELSE "ok"

\* the entry without the check of the quantity
PurchaseTicketsEntryAnyQuantity(buyer, venue_key, event_key, venue_treasury, platform_treasury, quantity, seat_start) ==
    LET event == chain.events[event_key]
        locked == GuardLock(chain.event_guards[event_key])
        current_time == clock
        new_sold == safe_add(event.tickets_sold, FromNat(quantity))
        ticket_cost == safe_mul(event.ticket_price, quantity)
        platform_fee == IF ticket_cost.ok
                        THEN calculate_fee(ticket_cost.v, chain.platform.fee_bps)
                        ELSE NoneV
        venue_amount == IF platform_fee.ok
                        THEN checked_sub(ticket_cost.v, platform_fee.v) ELSE NoneV
    IN  IF locked.err # "ok" THEN [err |-> locked.err]
        ELSE IF ~(current_time < event.start_time) THEN [err |-> "EventAlreadyStarted"]
        ELSE IF ~new_sold.ok THEN [err |-> "MathOverflow"]
        ELSE IF ~BigLeq(new_sold.v, event.total_tickets)
             THEN [err |-> "InsufficientTickets"]
        ELSE IF ~ticket_cost.ok \/ ~platform_fee.ok \/ ~venue_amount.ok
             THEN [err |-> "MathOverflow"]
        ELSE [err |-> "ok",
              frame |-> [op |-> "purchase_tickets", key |-> event_key,
                         pc |-> "transfer_venue", buyer |-> buyer,
                         venue_key |-> venue_key,
                         venue_treasury |-> venue_treasury,
                         platform_treasury |-> platform_treasury,
                         event |-> event, venue |-> chain.venues[venue_key],
                         reentrancy_guard |-> locked.guard,
                         quantity |-> quantity, seat_start |-> seat_start,
                         new_sold |-> new_sold.v, ticket_cost |-> ticket_cost.v,
                         platform_fee |-> platform_fee.v,
                         venue_amount |-> venue_amount.v,
                         guard_before |-> chain.event_guards[event_key].is_locked]]

\* the entry without the check of the capacity
PurchaseTicketsEntryNoCapacity(buyer, venue_key, event_key, venue_treasury, platform_treasury, quantity, seat_start) ==
    LET event == chain.events[event_key]
        locked == GuardLock(chain.event_guards[event_key])
        current_time == clock
        new_sold == safe_add(event.tickets_sold, FromNat(quantity))
        ticket_cost == safe_mul(event.ticket_price, quantity)
        platform_fee == IF ticket_cost.ok
                        THEN calculate_fee(ticket_cost.v, chain.platform.fee_bps)
                        ELSE NoneV
        venue_amount == IF platform_fee.ok
                        THEN checked_sub(ticket_cost.v, platform_fee.v) ELSE NoneV
    IN  IF locked.err # "ok" THEN [err |-> locked.err]
        ELSE IF ~(current_time < event.start_time) THEN [err |-> "EventAlreadyStarted"]
        ELSE IF ~(quantity > 0 /\ quantity <= MAX_TICKET_PURCHASE)
             THEN [err |-> "InvalidQuantity"]
        ELSE IF ~new_sold.ok THEN [err |-> "MathOverflow"]
        ELSE IF ~ticket_cost.ok \/ ~platform_fee.ok \/ ~venue_amount.ok
             THEN [err |-> "MathOverflow"]
        ELSE [err |-> "ok",
              frame |-> [op |-> "purchase_tickets", key |-> event_key,
                         pc |-> "transfer_venue", buyer |-> buyer,
                         venue_key |-> venue_key,
                         venue_treasury |-> venue_treasury,
                         platform_treasury |-> platform_treasury,
                         event |-> event, venue |-> chain.venues[venue_key],
                         reentrancy_guard |-> locked.guard,
                         quantity |-> quantity, seat_start |-> seat_start,
                         new_sold |-> new_sold.v, ticket_cost |-> ticket_cost.v,
                         platform_fee |-> platform_fee.v,
                         venue_amount |-> venue_amount.v,
                         guard_before |-> chain.event_guards[event_key].is_locked]]

\* lines 64-96: lock, the checks and the amounts, on the deserialized accounts
PurchaseTicketsEntry(buyer, venue_key, event_key, venue_treasury, platform_treasury, quantity, seat_start) ==
    LET event == chain.events[event_key]
        locked == GuardLock(chain.event_guards[event_key])
        current_time == clock
        new_sold == safe_add(event.tickets_sold, FromNat(quantity))
        ticket_cost == safe_mul(event.ticket_price, quantity)
        platform_fee == IF ticket_cost.ok
                        THEN calculate_fee(ticket_cost.v, chain.platform.fee_bps)
                        ELSE NoneV
        venue_amount == IF platform_fee.ok
                        THEN checked_sub(ticket_cost.v, platform_fee.v) ELSE NoneV
    IN  IF locked.err # "ok" THEN [err |-> locked.err]
        ELSE IF ~(current_time < event.start_time) THEN [err |-> "EventAlreadyStarted"]
        ELSE IF ~(quantity > 0 /\ quantity <= MAX_TICKET_PURCHASE)
             THEN [err |-> "InvalidQuantity"]
        ELSE IF ~new_sold.ok THEN [err |-> "MathOverflow"]
        ELSE IF ~BigLeq(new_sold.v, event.total_tickets)
             THEN [err |-> "InsufficientTickets"]
        ELSE IF ~ticket_cost.ok \/ ~platform_fee.ok \/ ~venue_amount.ok
             THEN [err |-> "MathOverflow"]
        ELSE [err |-> "ok",
              frame |-> [op |-> "purchase_tickets", key |-> event_key,
                         pc |-> "transfer_venue", buyer |-> buyer,
                         venue_key |-> venue_key,
                         venue_treasury |-> venue_treasury,
                         platform_treasury |-> platform_treasury,
                         event |-> event, venue |-> chain.venues[venue_key],
                         reentrancy_guard |-> locked.guard,
                         quantity |-> quantity, seat_start |-> seat_start,
                         new_sold |-> new_sold.v, ticket_cost |-> ticket_cost.v,
                         platform_fee |-> platform_fee.v,
                         venue_amount |-> venue_amount.v,
                         guard_before |-> chain.event_guards[event_key].is_locked]]

purchase_tickets(buyer, venue_key, event_key, venue_treasury, platform_treasury, quantity, seat_start) ==
    /\ Primary
    /\ CanInvoke
    /\ LET call(res) == Call("purchase_tickets", event_key, res) @@
                        [quantity |-> quantity, platform_treasury |-> platform_treasury]
           accounts == PurchaseTicketsAccounts(venue_key, event_key, platform_treasury)
       IN  IF accounts # "ok" THEN Fail(call(accounts))
           ELSE LET entry == PurchaseTicketsEntry(buyer, venue_key, event_key,
                                 venue_treasury, platform_treasury, quantity, seat_start)
                IN  IF entry.err # "ok" THEN Fail(call(entry.err))
                    ELSE Enter(entry.frame, call("in_flight"))

\* lines 98-124: the venue's share, then the platform fee unless it is zero
PurchaseTransfer(f) ==
    CASE f.pc = "transfer_venue" ->
            [to |-> f.venue_treasury, amount |-> f.venue_amount,
             next |-> IF f.platform_fee # Zero THEN "transfer_platform_fee"
                      ELSE "finish"]
      [] f.pc = "transfer_platform_fee" ->
            [to |-> f.platform_treasury, amount |-> f.platform_fee,
             next |-> "finish"]

\* lines 142-156: the loop over the tickets; it fails where a ticket number or
\* a seat number leaves the u32 range
RECURSIVE TicketLoop(_, _, _, _)
TicketLoop(start_ticket_number, seat_start, i, quantity) ==
    IF i = quantity THEN "ok"
    ELSE IF ~BigLeq(BigAdd(start_ticket_number, FromNat(i)), U32_MAX)
              \/ ~BigLeq(BigAdd(seat_start, FromNat(i)), U32_MAX)
         THEN "MathOverflow"
    ELSE TicketLoop(start_ticket_number, seat_start, i + 1, quantity)

\* the end of the handler without its unlock
PurchaseTicketsFinishNoUnlock(f) ==
    LET event == [f.event EXCEPT !.tickets_sold = AsU32(f.new_sold)]
        total_sales == safe_add(f.venue.total_sales, FromNat(f.quantity))
        start_ticket_number == BigSub(event.tickets_sold, FromNat(f.quantity))
        loop == TicketLoop(start_ticket_number, f.seat_start, 0, f.quantity)
    IN  IF ~total_sales.ok THEN [err |-> "MathOverflow"]
        ELSE IF loop # "ok" THEN [err |-> loop]
        ELSE [err |-> "ok", event |-> event,
              venue |-> [f.venue EXCEPT !.total_sales = total_sales.v],
              reentrancy_guard |-> f.reentrancy_guard]

\* the end of the handler with venue.total_sales added without the check
PurchaseTicketsFinishWrapping(f) ==
    LET event == [f.event EXCEPT !.tickets_sold = AsU32(f.new_sold)]
        sum == BigAdd(f.venue.total_sales, FromNat(f.quantity))
        total_sales == IF BigLeq(sum, U64_MAX) THEN sum
                       ELSE BigSub(sum, BigAdd(U64_MAX, One))
        start_ticket_number == BigSub(event.tickets_sold, FromNat(f.quantity))
        loop == TicketLoop(start_ticket_number, f.seat_start, 0, f.quantity)
        unlocked == GuardUnlock(f.reentrancy_guard)
    IN  IF loop # "ok" THEN [err |-> loop]
        ELSE [err |-> "ok", event |-> event,
              venue |-> [f.venue EXCEPT !.total_sales = total_sales],
              reentrancy_guard |-> unlocked.guard]

\* lines 126-176: statistics, the tickets, record, unlock
\* the end of the handler counting the tickets as reserved as well
PurchaseTicketsFinishReserving(f) ==
    LET event == [f.event EXCEPT !.tickets_sold = AsU32(f.new_sold),
                                 !.tickets_reserved = FromNat(f.quantity)]
        total_sales == safe_add(f.venue.total_sales, FromNat(f.quantity))
        start_ticket_number == BigSub(event.tickets_sold, FromNat(f.quantity))
        loop == TicketLoop(start_ticket_number, f.seat_start, 0, f.quantity)
        unlocked == GuardUnlock(f.reentrancy_guard)
    IN  IF ~total_sales.ok THEN [err |-> "MathOverflow"]
        ELSE IF loop # "ok" THEN [err |-> loop]
        ELSE [err |-> "ok", event |-> event,
              venue |-> [f.venue EXCEPT !.total_sales = total_sales.v],
              reentrancy_guard |-> unlocked.guard]

PurchaseTicketsFinish(f) ==
    LET event == [f.event EXCEPT !.tickets_sold = AsU32(f.new_sold)]
        total_sales == safe_add(f.venue.total_sales, FromNat(f.quantity))
        start_ticket_number == BigSub(event.tickets_sold, FromNat(f.quantity))
        loop == TicketLoop(start_ticket_number, f.seat_start, 0, f.quantity)
        unlocked == GuardUnlock(f.reentrancy_guard)
    IN  IF ~total_sales.ok THEN [err |-> "MathOverflow"]
        ELSE IF loop # "ok" THEN [err |-> loop]
        ELSE [err |-> "ok", event |-> event,
              venue |-> [f.venue EXCEPT !.total_sales = total_sales.v],
              reentrancy_guard |-> unlocked.guard]

\* exit of PurchaseTickets: venue, event and reentrancy_guard are `mut`
PurchaseTicketsExit(out, f) ==
    [chain EXCEPT !.events[f.key] = Persist(@, out.event),
                  !.venues[f.venue_key] = Persist(@, out.venue),
                  !.event_guards[f.key] = Persist(@, out.reentrancy_guard)]

purchase_tickets_finish ==
    /\ InFlight
    /\ Top.op = "purchase_tickets"
    /\ Top.pc = "finish"
    /\ LET f == Top
           call(res) == [op |-> "purchase_tickets", key |-> f.key, res |-> res,
                         depth |-> Depth, step |-> f.pc, quantity |-> f.quantity]
           out == PurchaseTicketsFinish(f)
       IN  IF out.err # "ok" THEN Fail(call(out.err))
           ELSE /\ chain' = PurchaseTicketsExit(out, f)
                /\ ghost' = [ghost EXCEPT
                       !.issued[f.key] = @ + f.quantity,
                       !.reserved[f.key] = Append(@,
                           [start_ticket_number |->
                                BigSub(out.event.tickets_sold, FromNat(f.quantity)),
                            quantity |-> f.quantity])]
                /\ ReturnTop(call("ok") @@
                             [guard_before |-> f.guard_before,
                              guard_held |-> f.reentrancy_guard.is_locked,
                              guard_after |-> IsLocked(chain'.event_guards[f.key])])

(***************************************************************************)
(* tickettoken/src/instructions/list_ticket_on_marketplace.rs              *)
(***************************************************************************)
\* line 68: the selector the bridge writes in front of the arguments
BridgeSelector == <<242, 93, 182, 110, 115, 127, 189, 59>>

\* marketplace/src/lib.rs line 24: the selector under which the #[program]
\* module dispatches create_listing, the first eight bytes of
\* SHA-256("global:create_listing")
CreateListingSelector == <<18, 168, 45, 24, 191, 31, 117, 54>>

MarketplaceDispatch(selector) ==
    IF selector = CreateListingSelector THEN "create_listing"
    ELSE "InstructionFallbackNotFound"

\* lines 14-18 and 45-61: the account constraints and the local checks
\* the checks without the upper bound of expires_at
ListTicketChecksOpenExpiry(event_key, price, expires_at) ==
    LET event == chain.events[event_key]
        max_price == MulDiv(event.ticket_price, 110, 100)
    IN  IF ~event.exists THEN "AccountNotInitialized"
        ELSE IF ~event.resaleable THEN "ResaleNotAllowed"
        ELSE IF ~(clock < event.start_time) THEN "EventAlreadyStarted"
        ELSE IF ~max_price.ok THEN "MathOverflow"
        ELSE IF ~BigLeq(price, max_price.v) THEN "PriceExceedsMax"
        ELSE IF ~(expires_at > clock) THEN "InvalidExpiry"
        ELSE "ok"

ListTicketChecks(event_key, price, expires_at) ==
    LET event == chain.events[event_key]
        max_price == MulDiv(event.ticket_price, 110, 100)
    IN  IF ~event.exists THEN "AccountNotInitialized"
        ELSE IF ~event.resaleable THEN "ResaleNotAllowed"
        ELSE IF ~(clock < event.start_time) THEN "EventAlreadyStarted"
        ELSE IF ~max_price.ok THEN "MathOverflow"
        ELSE IF ~BigLeq(price, max_price.v) THEN "PriceExceedsMax"
        ELSE IF ~(expires_at > clock /\ expires_at <= event.start_time)
             THEN "InvalidExpiry"
        ELSE "ok"

\* the record of a call of the bridge: its arguments, how it ended and, in
\* cpi, how the invoke() of lines 92-103 ended ("none": it was not reached)
BridgeCall(key, event_key, price, expires_at, res, cpi) ==
    Call("list_ticket_on_marketplace", key, res) @@
    [event |-> event_key, price |-> price, expires_at |-> expires_at, cpi |-> cpi]

\* the bridge with the result of invoke() dropped instead of propagated
list_ticket_on_marketplace_ignoring_cpi(ticket_owner, event_key, ticket_asset_id, price, expires_at) ==
    /\ Bridge
    /\ TopLevel
    /\ LET key == <<ticket_owner, ticket_asset_id>>
           call(res, cpi) == BridgeCall(key, event_key, price, expires_at, res, cpi)
           checks == ListTicketChecks(event_key, price, expires_at)
       IN  IF checks # "ok" THEN Fail(call(checks, "none"))
           ELSE /\ UNCHANGED <<chain, ghost>>
                /\ ReturnDirect(call("ok", MarketplaceDispatch(BridgeSelector)))

list_ticket_on_marketplace(ticket_owner, event_key, ticket_asset_id, price, expires_at) ==
    /\ Bridge
    /\ TopLevel
    /\ LET key == <<ticket_owner, ticket_asset_id>>
           call(res, cpi) == BridgeCall(key, event_key, price, expires_at, res, cpi)
           checks == ListTicketChecks(event_key, price, expires_at)
           dispatch == MarketplaceDispatch(BridgeSelector)
       IN  IF checks # "ok" THEN Fail(call(checks, "none"))
           ELSE IF dispatch # "create_listing" THEN Fail(call(dispatch, dispatch))
           ELSE \E run \in CreateListingRun(ticket_owner, ticket_asset_id, price,
                                            chain.events[event_key].ticket_price,
                                            expires_at, event_key) :
                  IF run.err # "ok" THEN Fail(call(run.err, run.err))
                  ELSE /\ chain' = run.chain
                       /\ ghost' = ListingCreated(key)
                       /\ ReturnDirect(call("ok", "ok"))

(***************************************************************************)
(* The fund transfer the innermost invocation is at (a CPI to the system   *)
(* program); it fails when the payer's lamports do not cover it.           *)
(***************************************************************************)
TransferOf(f) ==
    IF f.op = "buy_listing" THEN BuyTransfer(f) ELSE PurchaseTransfer(f)

transfer ==
    /\ InFlight
    /\ Top.pc \in TransferPcs
    /\ LET f == Top
           t == TransferOf(f)
       IN  IF ~CanPay(chain.lamports, f.buyer, t.amount)
           THEN Fail([op |-> f.op, key |-> f.key, res |-> "InsufficientFunds",
                      depth |-> Depth, step |-> f.pc])
           ELSE /\ chain' = [chain EXCEPT !.lamports = Pay(@, f.buyer, t.to, t.amount)]
                /\ stack' = [stack EXCEPT ![Len(stack)].pc = t.next]
                /\ UNCHANGED <<market, clock, ghost, snapshot, last>>

Tick ==
    /\ ~Setup
    /\ ~InFlight
    /\ clock < MaxTime
    /\ clock' = clock + 1
    /\ UNCHANGED <<market, chain, ghost, stack, snapshot, last>>

(***************************************************************************)
(* Initial states and the specification                                    *)
(***************************************************************************)
InitLamports ==
    [w \in Wallets |-> IF w = "carol" THEN Sol(108) ELSE Zero]

\* The marketplace has been initialized (fee 7.5%) and has traded for a long
\* time: total_sales is one sale below the top of the u64 range and
\* total_volume 55 SOL + 12 lamports below it.
\* total_listings is 0: no instruction ever stores another value (see
\* CreateListingExit).
InitMarketplace ==
    [exists |-> TRUE, authority |-> "alice", fee_bps |-> 750, paused |-> FALSE,
     total_listings |-> Zero, total_sales |-> BigSub(U64_MAX, One),
     total_volume |-> BigSub(BigSub(U64_MAX, Sol(55)), FromNat(12)), treasury |-> "treasury"]

\* The primary-sale program as initialize_platform, create_venue, verify_venue
\* and create_event have left it: a platform charging 2.5%, the verified venue
\* v1 two sales below the top of the u64 range, and two events of v1, e1 with
\* two tickets at 40 SOL and e2, not resaleable, starting earlier, at 28.5
\* SOL with the largest capacity create_event accepts.
InitPlatform ==
    [exists |-> TRUE, owner |-> "alice", treasury |-> "treasury",
     fee_bps |-> 250, paused |-> FALSE]

InitVenue ==
    [exists |-> TRUE, owner |-> "bob", verified |-> TRUE, active |-> TRUE,
     total_sales |-> BigSub(U64_MAX, FromNat(2))]

InitEvents ==
    [e \in EventKeys |->
        IF e = "e1"
        THEN [exists |-> TRUE, venue |-> "v1", ticket_price |-> Sol(40),
              total_tickets |-> FromNat(2), tickets_sold |-> Zero,
              tickets_reserved |-> Zero,
              start_time |-> 2, resaleable |-> TRUE]
        ELSE [exists |-> TRUE, venue |-> "v1", ticket_price |-> Dec(<<285, 0, 0>>),
              total_tickets |-> FromNat(16384), tickets_sold |-> Zero,
              tickets_reserved |-> Zero,
              start_time |-> 1, resaleable |-> FALSE]]

Init ==
    /\ market \in {"resale", "primary", "setup", "bridge"}
    /\ clock = 0
    /\ \E fee_bps \in IF market = "primary" THEN PlatformFeeInputs
                       ELSE {InitPlatform.fee_bps} :
         chain = [marketplace |-> IF Setup THEN NoAccount ELSE InitMarketplace,
                listings |-> [k \in ListingKeys |-> NoAccount],
                guards |-> [k \in ListingKeys |-> NoAccount],
                platform |-> IF Setup THEN NoAccount
                             ELSE [InitPlatform EXCEPT !.fee_bps = fee_bps],
                venues |-> [v \in Venues |-> InitVenue],
                events |-> InitEvents,
                event_guards |-> [e \in EventKeys |->
                                    [exists |-> TRUE, is_locked |-> FALSE]],
                lamports |-> InitLamports]
    /\ ghost = [sold |-> [k \in ListingKeys |-> 0],
                cancelled |-> [k \in ListingKeys |-> 0],
                issued |-> [e \in EventKeys |-> 0],
                reserved |-> [e \in EventKeys |-> <<>>],
                listings_sold |-> 0,
                volume_sold |-> Zero,
                sales |-> 0]
    /\ stack = <<>>
    /\ snapshot = NoSnap
    /\ last = NoCall

Next ==
    \/ \E a \in Users, fee_bps \in FeeBpsInputs :
          initialize_marketplace(a, fee_bps, "treasury")
    \/ \E owner \in Users, fee_bps \in FeeBpsInputs,
          treasury \in PlatformTreasuryInputs :
          initialize_platform(owner, fee_bps, treasury)
    \/ \E seller \in Users, asset_id \in Assets, expires_at \in ExpiryInputs,
          event \in ListingEvents : \E pp \in SellerOffers[seller] :
          create_listing(seller, asset_id, pp[1], pp[2], expires_at, event)
    \/ \E owner \in BridgeOwners, event \in EventKeys, asset_id \in Assets,
          price \in BridgePrices, expires_at \in BridgeExpiryInputs :
          list_ticket_on_marketplace(owner, event, asset_id, price, expires_at)
    \/ \E buyer \in Buyers, key \in ListingKeys, seller \in Users,
          mt \in {"treasury"}, vt \in {"venue_treasury"} :
          buy_listing(buyer, key, seller, mt, vt)
    \/ buy_listing_finish
    \/ \E seller \in Users, key \in ListingKeys : cancel_listing(seller, key)
    \/ \E buyer \in Buyers, venue \in Venues, event \in EventKeys,
          pt \in {"treasury", "venue_treasury"},
          quantity \in QuantityInputs, seat_start \in SeatInputs :
          purchase_tickets(buyer, venue, event, "venue_treasury", pt,
                           quantity, seat_start)
    \/ purchase_tickets_finish
    \/ transfer
    \/ Tick

Spec == Init /\ [][Next]_vars

(***************************************************************************)
(* The arithmetic on its own: the functions applied to arguments drawn     *)
(* from the sets below; `last` holds the application and its result.       *)
(***************************************************************************)
FnPrices ==
    { Zero, One, FromNat(13), FromNat(19), FromNat(20), FromNat(9999),
      Dec(<<1, 2345, 6789>>), Sol(1), Sol(55), Sol(100),
      BigDivSmall(U64_MAX, 1000), BigAdd(BigDivSmall(U64_MAX, 1000), One),
      BigDivSmall(U64_MAX, 500), BigAdd(BigDivSmall(U64_MAX, 500), One),
      U64_MAX }
FnFeeBps == {0, 1, 333, 750, 999, 1000, 1001, 9500, 9501}

\* the amounts and the rates calculate_fee is applied to: those of the unit
\* tests (test_math_overflow_protection, test_fee_calculation_overflow) and
\* the two sides of each rate's overflow threshold; fee_bps is a u16
FnAmounts ==
    { Zero, One, FromNat(9999), FromNat(10000), Dec(<<100, 0>>),
      BigSub(BigDivSmall(U64_MAX, 10000), One), BigDivSmall(U64_MAX, 100),
      BigDivSmall(U64_MAX, 250), BigAdd(BigDivSmall(U64_MAX, 250), One),
      BigDivSmall(U64_MAX, 65535), BigAdd(BigDivSmall(U64_MAX, 65535), One),
      U64_MAX }
FnRates == {0, 1, 250, 1000, 10000, 65535}

ApplyCalculateFee(amount, fee_bps) ==
    /\ market = "functions"
    /\ LET out == calculate_fee(amount, fee_bps)
       IN  last' = [op |-> "calculate_fee", key |-> <<amount, fee_bps>>,
                    res |-> IF out.ok THEN "ok" ELSE "MathOverflow",
                    depth |-> 0, step |-> "none", out |-> out]
    /\ UNCHANGED <<market, clock, chain, ghost, stack, snapshot>>

\* the (price, original_price) pairs the two price-cap checks are applied to:
\* those of the unit tests (test_listing_creation, test_price_cap_enforcement)
\* and the two sides of the thresholds of the 64-bit product and of the cast
FnCapPairs ==
    { <<Sol(55), Sol(50)>>, <<Sol(60), Sol(50)>>, <<Sol(50), Sol(50)>>,
      <<Zero, Zero>>, <<One, Zero>>, <<FromNat(13), FromNat(13)>>,
      <<LargestOriginal, LargestOriginal>>,
      <<BigOriginal, BigOriginal>>, <<BigOriginalCap, BigOriginal>>,
      <<BigAdd(BigOriginalCap, One), BigOriginal>>,
      <<U64_MAX, BigDivSmall(BigMulSmall(U64_MAX, 100), 110)>>,
      <<One, U64_MAX>>, <<U64_MAX, U64_MAX>> }

ApplyPriceCap(price, original_price) ==
    /\ market = "functions"
    /\ LET validate == validate_price_cap(price, original_price)
           within == is_within_price_cap(price, original_price)
       IN  last' = [op |-> "price_cap", key |-> <<price, original_price>>,
                    res |-> validate, depth |-> 0, step |-> "none",
                    out |-> [within |-> within]]
    /\ UNCHANGED <<market, clock, chain, ghost, stack, snapshot>>

ApplyBuyAmounts(price, fee_bps) ==
    /\ market = "functions"
    /\ LET out == BuyAmounts(price, fee_bps)
       IN  last' = [op |-> "BuyAmounts", key |-> <<price, fee_bps>>,
                    res |-> out.err, depth |-> 0, step |-> "none", out |-> out]
    /\ UNCHANGED <<market, clock, chain, ghost, stack, snapshot>>

\* lock and unlock applied to a guard value, as the unit tests of the two
\* programs apply them (test_reentrancy_lock_unlock, test_reentrancy_guard);
\* the guard keeps what the call left in it, and `last` also names the
\* application before this one
ApplyLock(e) ==
    /\ market = "functions"
    /\ LET g == chain.event_guards[e]
           out == GuardLock(g)
       IN  /\ chain' = [chain EXCEPT !.event_guards[e] = out.guard]
           /\ last' = [op |-> "lock", key |-> e, res |-> out.err, depth |-> 0,
                        step |-> "none", before |-> g,
                        prev |-> [op |-> last.op, key |-> last.key]]
    /\ UNCHANGED <<market, clock, ghost, stack, snapshot>>

ApplyUnlock(e) ==
    /\ market = "functions"
    /\ LET g == chain.event_guards[e]
           out == GuardUnlock(g)
       IN  /\ chain' = [chain EXCEPT !.event_guards[e] = out.guard]
           /\ last' = [op |-> "unlock", key |-> e, res |-> out.err, depth |-> 0,
                        step |-> "none", before |-> g,
                        prev |-> [op |-> last.op, key |-> last.key]]
    /\ UNCHANGED <<market, clock, ghost, stack, snapshot>>

InitFn ==
    /\ market = "functions"
    /\ clock = 0
    /\ chain = [marketplace |-> InitMarketplace,
                listings |-> [k \in ListingKeys |-> NoAccount],
                guards |-> [k \in ListingKeys |-> NoAccount],
                platform |-> InitPlatform,
                venues |-> [v \in Venues |-> InitVenue],
                events |-> InitEvents,
                event_guards |-> [e \in EventKeys |->
                                    [exists |-> TRUE, is_locked |-> FALSE]],
                lamports |-> InitLamports]
    /\ ghost = [sold |-> [k \in ListingKeys |-> 0],
                cancelled |-> [k \in ListingKeys |-> 0],
                issued |-> [e \in EventKeys |-> 0],
                reserved |-> [e \in EventKeys |-> <<>>],
                listings_sold |-> 0,
                volume_sold |-> Zero,
                sales |-> 0]
    /\ stack = <<>>
    /\ snapshot = NoSnap
    /\ last = NoCall

NextFn ==
    \/ \E price \in FnPrices, fee_bps \in FnFeeBps : ApplyBuyAmounts(price, fee_bps)
    \/ \E amount \in FnAmounts, fee_bps \in FnRates : ApplyCalculateFee(amount, fee_bps)
    \/ \E pp \in FnCapPairs : ApplyPriceCap(pp[1], pp[2])
    \/ \E e \in EventKeys : ApplyLock(e)
    \/ \E e \in EventKeys : ApplyUnlock(e)

SpecFn == InitFn /\ [][NextFn]_vars

(***************************************************************************)
(* Properties                                                              *)
(***************************************************************************)
Settlements == {"buy_listing", "purchase_tickets"}
Failed(call) == call.res \notin {"ok", "in_flight", "none"}

\* the guard account of the resource a settlement call names
GuardOf(call) ==
    IF call.op = "buy_listing" THEN chain.guards[call.key]
    ELSE chain.event_guards[call.key]

\* C1: while a buy_listing on listing L is in flight, a nested buy_listing on
\* the same L fails with ReentrancyLocked, so that in every execution, the
\* reentrant ones included, L is sold at most once and funds for L are moved
\* by at most one buy_listing.  (ghost.sold[L] counts the ListingSold records
\* since L was created.)
C1_SoldAtMostOnce == \A k \in ListingKeys : ghost.sold[k] <= 1

\* q = floor(n / d), stated without division
IsFloorDiv(q, n, d) ==
    /\ BigLeq(BigMulSmall(q, d), n)
    /\ BigLt(n, BigMulSmall(BigAdd(q, One), d))

C2_GuardUnlockedAroundSuccess ==
    (last.op \in Settlements /\ last.res = "ok")
        => ~last.guard_before /\ ~last.guard_after

C2_Witness ==
    /\ last.op = "purchase_tickets" /\ last.res = "ok"
    /\ chain.event_guards[last.key].exists
    /\ ghost.issued[last.key] > 0

\* C3: after any failed buy_listing or purchase_tickets, whichever step failed
\* after the guard was acquired, the guard of that resource is unlocked; no
\* call is ever rejected with ReentrancyLocked, and when no transaction is in
\* flight no guard is locked.
C3_GuardUnlockedAfterFailure ==
    /\ (last.op \in Settlements /\ Failed(last)) => ~IsLocked(GuardOf(last))
    /\ last.res # "ReentrancyLocked"
    /\ ~InFlight =>
          /\ \A k \in ListingKeys : ~IsLocked(chain.guards[k])
          /\ \A e \in EventKeys : ~IsLocked(chain.event_guards[e])

\* a buy_listing has failed in its second transfer, after the lock and after
\* the seller was paid, and its guard is there and unlocked
C3_Witness ==
    /\ last.op = "buy_listing" /\ last.res = "InsufficientFunds"
    /\ last.step # "transfer_seller"
    /\ chain.guards[last.key].exists
    /\ ~chain.guards[last.key].is_locked


\* an invocation of op on the resource k starts (and fails at once, or gets
\* in flight) in this step
Entry(op, k) ==
    /\ last' # last
    /\ last'.op = op /\ last'.key = k /\ last'.step = "entry"

WithinCap(price, original_price) ==
    BigLeq(BigMulSmall(price, 100), BigMulSmall(original_price, 110))

\* price = floor(original_price * 110 / 100)
AtCap(price, original_price) ==
    IsFloorDiv(price, BigMulSmall(original_price, 110), 100)

\* the results create_listing ends with before it compares the price
BeforePriceCheck ==
    {"AccountNotInitialized", "MarketplacePaused", "AccountInUse", "InvalidExpiry"}

\* a rejected creation leaves no Listing, no Guard, and total_listings alone
NothingCreated(k) ==
    /\ ~chain.listings[k].exists
    /\ ~chain.guards[k].exists
    /\ chain.marketplace.total_listings = InitMarketplace.total_listings

\* C6 as stated: create_listing succeeds only if price <= floor(original_price
\* * 110 / 100); a price exactly at 110% of original_price is accepted, and
\* any higher price fails with PriceCapExceeded, creating no Listing and no
\* Guard and leaving total_listings unchanged.
C6_AsStated ==
    last.op = "create_listing" =>
        /\ last.res = "ok" => WithinCap(last.price, last.original_price)
        /\ AtCap(last.price, last.original_price) =>
              last.res \in BeforePriceCheck \cup {"ok"}
        /\ ~WithinCap(last.price, last.original_price) =>
              last.res \in BeforePriceCheck \cup {"PriceCapExceeded"}
        /\ last.res = "PriceCapExceeded" => NothingCreated(last.key)

\* C6 amended: the same where original_price * 110 fits in u64; where it does
\* not, create_listing fails with MathOverflow whatever the price, and also
\* creates nothing.
C6_PriceCap ==
    last.op = "create_listing" =>
        LET fits == BigLeq(BigMulSmall(last.original_price, 110), U64_MAX)
        IN  /\ last.res = "ok" => WithinCap(last.price, last.original_price)
            /\ (fits /\ AtCap(last.price, last.original_price)) =>
                  last.res \in BeforePriceCheck \cup {"ok"}
            /\ (fits /\ ~WithinCap(last.price, last.original_price)) =>
                  last.res \in BeforePriceCheck \cup {"PriceCapExceeded"}
            /\ ~fits => last.res \in BeforePriceCheck \cup {"MathOverflow"}
            /\ last.res \in {"PriceCapExceeded", "MathOverflow"} =>
                  NothingCreated(last.key)

\* a listing at exactly 110% of its original price has been created
C6_Witness ==
    /\ last.op = "create_listing" /\ last.res = "ok"
    /\ AtCap(last.price, last.original_price)
    /\ last.price # last.original_price
    /\ chain.listings[last.key].exists
    /\ chain.guards[last.key].exists

\* C7: every Listing that exists, created by create_listing directly or
\* through list_ticket_on_marketplace, has a price of at most floor(110% of
\* the ticket_price of the Event it references).
C7_PriceWithinEventCap ==
    \A k \in ListingKeys :
        chain.listings[k].exists =>
            WithinCap(chain.listings[k].price,
                      chain.events[chain.listings[k].event].ticket_price)


\* C8: buy_listing on a listing with active = false fails with
\* ListingNotActive, and on an active listing with now > expires_at with
\* ListingExpired; in both cases no funds move and no counter changes.  At
\* now = expires_at the listing is not expired: a buy is not rejected as
\* expired.
C8_InactiveOrExpiredRejected ==
    [][ \A k \in ListingKeys :
          (Entry("buy_listing", k) /\ chain.listings[k].exists) =>
             LET listing == chain.listings[k]
             IN  /\ ~listing.active =>
                       /\ last'.res = "ListingNotActive"
                       /\ chain' = Committed.chain
                 /\ (listing.active /\ clock > listing.expires_at) =>
                       /\ last'.res = "ListingExpired"
                       /\ chain' = Committed.chain
                 /\ clock <= listing.expires_at => last'.res # "ListingExpired"
      ]_vars

\* a buy of an active listing has been rejected as expired
C8_Witness ==
    /\ last.op = "buy_listing" /\ last.res = "ListingExpired"
    /\ chain.listings[last.key].exists
    /\ chain.listings[last.key].active
    /\ clock > chain.listings[last.key].expires_at

\* C9: listing inactivity is terminal: once a buy_listing that succeeded has
\* set listing.active to false, nothing sets it to true again (the listing
\* stays as it is), and every later buy_listing or cancel_listing on that
\* listing fails.
C9_InactiveIsTerminal ==
    [][ \A k \in ListingKeys :
          /\ LET listing == Committed.chain.listings[k]
             IN  (listing.exists /\ ~listing.active) =>
                    Committed'.chain.listings[k] = listing
          /\ (/\ Entry("buy_listing", k) \/ Entry("cancel_listing", k)
              /\ chain.listings[k].exists /\ ~chain.listings[k].active) =>
                Failed(last')
      ]_vars

\* the seller's cancel_listing on their sold listing has failed
C9_Witness ==
    /\ last.op = "cancel_listing" /\ last.res = "ListingNotActive"
    /\ ghost.sold[last.key] = 1
    /\ ~chain.listings[last.key].active

\* C10: cancel_listing succeeds at most once per listing: after it succeeded
\* the Listing and its Guard do not exist, and a second cancel_listing on
\* the listing fails, the account not being there.  (ghost.cancelled[L]
\* counts the ListingCancelled records since L was created.)
C10_CancelAtMostOnce ==
    /\ \A k \in ListingKeys :
          /\ ghost.cancelled[k] <= 1
          /\ ghost.cancelled[k] = 1 =>
                ~chain.listings[k].exists /\ ~chain.guards[k].exists
    /\ (/\ last.op = "cancel_listing" /\ Failed(last)
        /\ ~chain.listings[last.key].exists) =>
          last.res = "AccountNotInitialized"

\* a second cancel_listing on a cancelled listing has failed
C10_Witness ==
    /\ last.op = "cancel_listing" /\ last.res = "AccountNotInitialized"
    /\ ghost.cancelled[last.key] = 1

\* C11: cancel_listing called by anyone other than listing.seller fails with
\* Unauthorized and leaves the Listing (active, if it was) and its Guard in
\* place; it succeeds only when the caller is listing.seller and
\* listing.active is true.
C11_OnlySellerCancels ==
    [][ \A k \in ListingKeys :
          (Entry("cancel_listing", k) /\ chain.listings[k].exists) =>
             LET listing == chain.listings[k]
             IN  /\ last'.seller # listing.seller =>
                       /\ last'.res = "Unauthorized"
                       /\ chain' = Committed.chain
                       /\ chain'.listings[k].exists
                       /\ listing.active => chain'.listings[k].active
                       /\ chain'.guards[k].exists
                 /\ last'.res = "ok" =>
                       /\ last'.seller = listing.seller
                       /\ listing.active
      ]_vars

\* someone else's cancel_listing on an active listing has been refused
C11_Witness ==
    /\ last.op = "cancel_listing" /\ last.res = "Unauthorized"
    /\ last.seller # chain.listings[last.key].seller
    /\ chain.listings[last.key].exists
    /\ chain.listings[last.key].active
    /\ chain.guards[last.key].exists

\* C12: guard acquire (lock), in both programs: on an unlocked guard it
\* succeeds and the guard becomes locked; on a locked guard it fails with
\* ReentrancyLocked and the guard remains locked.
C12_LockContract ==
    last.op = "lock" =>
        LET guard == chain.event_guards[last.key]
        IN  /\ ~last.before.is_locked => last.res = "ok" /\ guard.is_locked
            /\ last.before.is_locked =>
                  last.res = "ReentrancyLocked" /\ guard.is_locked

\* a second lock, straight after the lock of the same guard, has failed
C12_Witness ==
    /\ last.op = "lock" /\ last.res = "ReentrancyLocked"
    /\ last.prev = [op |-> "lock", key |-> last.key]
    /\ chain.event_guards[last.key].is_locked

\* C13: guard release (unlock) never fails and always leaves the guard
\* unlocked, whether it was locked or already unlocked (an unlock straight
\* after an unlock changes nothing); a lock straight after an unlock
\* succeeds.
C13_UnlockContract ==
    /\ last.op = "unlock" =>
          /\ last.res = "ok"
          /\ ~chain.event_guards[last.key].is_locked
          /\ last.prev = [op |-> "unlock", key |-> last.key] =>
                chain.event_guards[last.key] = last.before
    /\ (last.op = "lock" /\ last.prev = [op |-> "unlock", key |-> last.key]) =>
          last.res = "ok" /\ chain.event_guards[last.key].is_locked

\* an unlock of a guard that the unlock before it had already unlocked
C13_Witness ==
    /\ last.op = "unlock" /\ last.res = "ok"
    /\ last.prev = [op |-> "unlock", key |-> last.key]
    /\ ~last.before.is_locked
    /\ ~chain.event_guards[last.key].is_locked

\* C14: while a purchase_tickets on event E is in flight, a nested
\* purchase_tickets on the same E fails with ReentrancyLocked, so that every
\* successful purchase increases event.tickets_sold by exactly its own
\* quantity and tickets_sold is never overwritten with a value computed from
\* a stale read: tickets_sold is the sum of the quantities of the purchases
\* that succeeded.  (ghost.issued[E] is that sum, from the TicketsPurchased
\* records.)
C14_SoldCountsEveryPurchase ==
    \A e \in EventKeys :
        chain.events[e].tickets_sold = FromNat(ghost.issued[e])

\* the checks of purchase_tickets that come before the one on the quantity
\* hold: the treasury is the platform's, and the event has not started
\* (the venue, the event and the guard of the call are there and valid in
\* every reachable state)
BeforeQuantityCheckHolds(e) ==
    /\ last'.platform_treasury = chain.platform.treasury
    /\ clock < chain.events[e].start_time

\* C15: purchase_tickets with quantity = 0 or quantity > 10 (11, say) fails,
\* moves no funds and leaves event.tickets_sold and venue.total_sales
\* unchanged; it fails with InvalidQuantity wherever the checks made before
\* the one on the quantity (accounts, event not started) hold.
C15_InvalidQuantityRejected ==
    [][ \A e \in EventKeys :
          (/\ Entry("purchase_tickets", e)
           /\ (last'.quantity = 0 \/ last'.quantity > 10)) =>
             /\ Failed(last')
             /\ ~InFlight'
             /\ chain' = Committed.chain
             /\ BeforeQuantityCheckHolds(e) => last'.res = "InvalidQuantity"
             /\ last'.res \in {"InvalidTreasury", "EventAlreadyStarted",
                                "InvalidQuantity"}
      ]_vars

\* a purchase of 11 tickets has been refused after an earlier purchase, which
\* stays counted
C15_Witness ==
    /\ last.op = "purchase_tickets" /\ last.res = "InvalidQuantity"
    /\ last.quantity = 11
    /\ chain.events[last.key].tickets_sold = One
    /\ chain.lamports["carol"] # InitLamports["carol"]

\* C16: in every reachable state event.tickets_sold <= event.total_tickets.
\* A purchase_tickets with tickets_sold + quantity > total_tickets, the
\* earlier checks holding, fails with InsufficientTickets and changes
\* nothing; one with tickets_sold + quantity <= total_tickets, equality
\* included, is not refused for capacity (and succeeds: C16_Witness); once
\* tickets_sold = total_tickets every further purchase_tickets fails.
C16_SoldWithinCapacity ==
    [][ \A e \in EventKeys :
          LET event == chain.events[e]
              asked == BigAdd(event.tickets_sold, FromNat(last'.quantity))
          IN  /\ BigLeq(event.tickets_sold, event.total_tickets)
              /\ BigLeq(chain'.events[e].tickets_sold, chain'.events[e].total_tickets)
              /\ Entry("purchase_tickets", e) =>
                    /\ (/\ BeforeQuantityCheckHolds(e)
                        /\ last'.quantity \in 1..10
                        /\ ~BigLeq(asked, event.total_tickets)) =>
                           /\ last'.res = "InsufficientTickets"
                           /\ chain' = Committed.chain
                    /\ BigLeq(asked, event.total_tickets) =>
                           last'.res # "InsufficientTickets"
                    /\ event.tickets_sold = event.total_tickets => Failed(last')
      ]_vars

\* a purchase of the last ticket of an event has succeeded
C16_Witness ==
    /\ last.op = "purchase_tickets" /\ last.res = "ok"
    /\ last.quantity = 1
    /\ chain.events[last.key].tickets_sold = chain.events[last.key].total_tickets
    /\ ghost.issued[last.key] = 2

\* this step is a transfer of the innermost invocation that went through
Transferred == InFlight /\ Len(stack') = Len(stack) /\ stack'[Len(stack)].pc # Top.pc

\* this step moves exactly amount lamports from one wallet to another
Moves(from, to, amount) ==
    /\ from # to
    /\ chain'.lamports[from] = BigSub(chain.lamports[from], amount)
    /\ chain'.lamports[to] = BigAdd(chain.lamports[to], amount)
    /\ \A w \in Wallets \ {from, to} : chain'.lamports[w] = chain.lamports[w]

\* C17: on every successful purchase_tickets the buyer pays exactly
\* ticket_cost = event.ticket_price * quantity, split as platform_fee =
\* floor(ticket_cost * platform.fee_bps / 10000) to the platform treasury
\* (the transfer skipped when the fee is zero) and venue_amount = ticket_cost
\* - platform_fee to the venue treasury, so venue_amount + platform_fee =
\* ticket_cost.  A purchase in flight holds these amounts; its transfers
\* move them, the venue's first, and it succeeds only after them.
C17_PurchaseSplit ==
    [][ (InFlight /\ Top.op = "purchase_tickets") =>
          LET f == Top
              next == stack'[Len(stack)].pc
          IN  /\ f.ticket_cost = BigMulSmall(f.event.ticket_price, f.quantity)
              /\ IsFloorDiv(f.platform_fee,
                            BigMulSmall(f.ticket_cost, chain.platform.fee_bps), 10000)
              /\ BigAdd(f.venue_amount, f.platform_fee) = f.ticket_cost
              /\ f.platform_treasury = chain.platform.treasury
              /\ (Transferred /\ f.pc = "transfer_venue") =>
                    /\ Moves(f.buyer, f.venue_treasury, f.venue_amount)
                    /\ next = IF f.platform_fee = Zero THEN "finish"
                              ELSE "transfer_platform_fee"
              /\ (Transferred /\ f.pc = "transfer_platform_fee") =>
                    /\ f.platform_fee # Zero
                    /\ Moves(f.buyer, f.platform_treasury, f.platform_fee)
                    /\ next = "finish"
              /\ (Len(stack') < Len(stack) /\ last'.res = "ok") =>
                    f.pc = "finish" /\ chain'.lamports = chain.lamports
      ]_vars

\* a purchase of one ticket at 40 SOL under a fee of 2.5% has succeeded: the
\* venue has 39 SOL and the platform 1 SOL
C17_Witness ==
    /\ last.op = "purchase_tickets" /\ last.res = "ok" /\ last.quantity = 1
    /\ chain.platform.fee_bps = 250
    /\ chain.lamports["venue_treasury"] = Sol(39)
    /\ chain.lamports["treasury"] = Sol(1)
    /\ chain.lamports["carol"] = Sol(68)

\* the TicketsPurchased records of event e whose range [start_ticket_number,
\* start_ticket_number + quantity) holds the ticket number n
Covering(e, n) ==
    { i \in DOMAIN ghost.reserved[e] :
        LET r == ghost.reserved[e][i]
        IN  /\ BigLeq(r.start_ticket_number, FromNat(n))
            /\ BigLt(FromNat(n), BigAdd(r.start_ticket_number, FromNat(r.quantity))) }

\* C18: each successful purchase_tickets reserves the ticket numbers [s, s +
\* quantity), s being event.tickets_sold before the call, and reports s as
\* start_ticket_number; over any sequence of purchases for one event the
\* reserved ranges are pairwise disjoint and their union is exactly [0,
\* event.tickets_sold): every number below tickets_sold is in exactly one
\* range and no other number is in any.
C18_RangesPartitionSold ==
    \A e \in EventKeys : \A n \in 0..ghost.issued[e] :
        Cardinality(Covering(e, n)) =
            IF BigLt(FromNat(n), chain.events[e].tickets_sold) THEN 1 ELSE 0

\* C19: every failing purchase_tickets leaves the balances,
\* event.tickets_sold, venue.total_sales and the guard as they were before
\* the call (for a nested call: before the transaction it ran in, which
\* fails with it), the failures found only after the transfers and the
\* update of tickets_sold included: venue.total_sales + quantity leaving the
\* u64 range, and seat_start + i leaving 32 bits in the loop over the
\* tickets, both of which end the call with MathOverflow.
C19_FailedPurchaseLeavesNothing ==
    [][ /\ (~InFlight /\ InFlight') =>
              snapshot'.chain = chain /\ chain' = chain
        /\ (last' # last /\ last'.op = "purchase_tickets" /\ Failed(last')) =>
              /\ ~InFlight'
              /\ chain' = IF InFlight THEN snapshot.chain ELSE chain
        /\ (InFlight /\ Top.op = "purchase_tickets" /\ Top.pc = "finish") =>
              LET f == Top
                  late ==
                    \/ ~BigLeq(BigAdd(f.venue.total_sales, FromNat(f.quantity)),
                               U64_MAX)
                    \/ ~BigLeq(BigAdd(f.seat_start, FromNat(f.quantity - 1)),
                               U32_MAX)
              IN  /\ late => (last'.res = "MathOverflow" /\ chain' = snapshot.chain)
                  /\ ~late => last'.res = "ok"
      ]_vars

\* a purchase of one ticket has failed on venue.total_sales, at the top of
\* its range, after its transfers: the buyer has what the two tickets
\* bought earlier left, and the guard is unlocked
C19_Witness ==
    /\ last.op = "purchase_tickets" /\ last.res = "MathOverflow"
    /\ last.step = "finish" /\ last.quantity = 1
    /\ chain.venues["v1"].total_sales = U64_MAX
    /\ chain.events[last.key].tickets_sold = Zero
    /\ chain.lamports["carol"] = Sol(51)
    /\ ~chain.event_guards[last.key].is_locked

\* C20: each successful buy_listing sets listing.active to false, adds
\* exactly 1 to total_sales and exactly listing.price to total_volume, so
\* that in every reachable state total_sales is the number of listings that
\* have been sold and total_volume the sum of the prices of those listings
\* (on top of the sales the marketplace started with).  ghost.listings_sold
\* counts the listings with a ListingSold record, a listing sold twice once,
\* and ghost.volume_sold adds their prices.
C20_CountersMatchSales ==
    Resale =>
    /\ \A k \in ListingKeys :
          (ghost.sold[k] > 0 /\ chain.listings[k].exists) => ~chain.listings[k].active
    /\ chain.marketplace.total_sales =
          BigAdd(InitMarketplace.total_sales, FromNat(ghost.listings_sold))
    /\ chain.marketplace.total_volume =
          BigAdd(InitMarketplace.total_volume, ghost.volume_sold)


\* total_listings, total_sales and total_volume of a ledger state; those of
\* a marketplace not initialized yet count as 0
MarketplaceCounters(c) ==
    IF c.marketplace.exists
    THEN <<c.marketplace.total_listings, c.marketplace.total_sales,
           c.marketplace.total_volume>>
    ELSE <<Zero, Zero, Zero>>

\* no aggregate counter of ledger state d is below its value in ledger state c
CountersGrow(c, d) ==
    /\ \A i \in 1..3 : BigLeq(MarketplaceCounters(c)[i], MarketplaceCounters(d)[i])
    /\ \A e \in EventKeys :
          BigLeq(c.events[e].tickets_sold, d.events[e].tickets_sold)
    /\ \A v \in Venues : BigLeq(c.venues[v].total_sales, d.venues[v].total_sales)

\* C21: the aggregate counters total_listings, total_sales, total_volume,
\* event.tickets_sold and venue.total_sales never decrease, from one
\* committed ledger state to the next, at the top of the 64-bit range
\* included, where the +1 of total_listings and total_sales is applied.
C21_CountersNeverDecrease ==
    [][CountersGrow(Committed.chain, Committed'.chain)]_vars

\* the counters the settlements keep, as a ledger state stores them
SettlementCounters(c) ==
    <<MarketplaceCounters(c)[2], MarketplaceCounters(c)[3],
      [e \in EventKeys |-> c.events[e].tickets_sold],
      [v \in Venues |-> c.venues[v].total_sales]>>

\* a step that is not the rollback of a failed transaction
NoRollback == ~(InFlight /\ ~InFlight' /\ Failed(last'))

\* the step is the end of a settlement handler that holds its guard locked
\* (the handler's value of the guard account) and returns Ok
EndsHoldingGuard ==
    /\ InFlight /\ Top.pc = "finish" /\ Top.op \in Settlements
    /\ Top.reentrancy_guard.is_locked
    /\ last'.op = Top.op /\ last'.key = Top.key /\ last'.res = "ok"

\* the step is a create_listing that returns Ok
ListingCreatedNow ==
    /\ last'.op = "create_listing" /\ last'.res = "ok"
    /\ ~chain.listings[last'.key].exists /\ chain'.listings[last'.key].exists

C23_FeeBounded ==
    [][ /\ chain.marketplace.exists => chain.marketplace.fee_bps <= 1000
        /\ chain'.marketplace.exists => chain'.marketplace.fee_bps <= 1000
        /\ chain.platform.exists => chain.platform.fee_bps <= 1000
        /\ chain'.platform.exists => chain'.platform.fee_bps <= 1000
        /\ \A op \in {"initialize_marketplace", "initialize_platform"} :
              (last' # last /\ last'.op = op) =>
                 LET before == IF op = "initialize_marketplace"
                               THEN chain.marketplace ELSE chain.platform
                     after == IF op = "initialize_marketplace"
                              THEN chain'.marketplace ELSE chain'.platform
                 IN  /\ last'.fee_bps > 1000 => Failed(last') /\ chain' = chain
                     /\ last'.res = "ok" =>
                           /\ ~before.exists
                           /\ after.exists /\ after.fee_bps = last'.fee_bps
                     /\ before.exists => Failed(last') /\ chain' = chain
        /\ chain.marketplace.exists =>
              /\ chain'.marketplace.exists
              /\ chain'.marketplace.fee_bps = chain.marketplace.fee_bps
        /\ chain.platform.exists =>
              /\ chain'.platform.exists
              /\ chain'.platform.fee_bps = chain.platform.fee_bps ]_vars

\* the marketplace was initialized with the highest fee accepted, and an
\* initialize_platform with fee_bps = 1001 has failed and left no platform
C23_Witness ==
    /\ Setup
    /\ chain.marketplace.exists /\ chain.marketplace.fee_bps = 1000
    /\ ~chain.platform.exists
    /\ last.op = "initialize_platform" /\ last.res = "FeeTooHigh"
    /\ last.fee_bps = 1001

\* C24: calculate_fee(amount, fee_bps) returns floor(amount * fee_bps / 10000)
\* exactly when amount * fee_bps fits in a u64 and fails with MathOverflow
\* exactly when the product exceeds 2^64 - 1; the result is never a wrapped
\* or truncated value.
C24_FeeExactOrOverflow ==
    last.op = "calculate_fee" =>
        LET amount == last.key[1]
            fee_bps == last.key[2]
            product == BigMulSmall(amount, fee_bps)
        IN  IF BigLeq(product, U64_MAX)
            THEN /\ last.res = "ok"
                 /\ IsFloorDiv(last.out.v, product, 10000)
            ELSE last.res = "MathOverflow"

\* the overflowing case of test_fee_calculation_overflow: u64::MAX / 100 at
\* 250 bps has failed with MathOverflow
C24_Witness ==
    /\ last.op = "calculate_fee" /\ last.res = "MathOverflow"
    /\ last.key = <<BigDivSmall(U64_MAX, 100), 250>>

\* C25: every arithmetic step of create_listing, buy_listing and
\* purchase_tickets, the +1 of total_listings and of total_sales, the
\* narrowing of the new tickets_sold to 32 bits and the subtraction that
\* yields start_ticket_number included, either produces the exact result or
\* fails the call with MathOverflow; no stored value is wrapped or truncated.
\* Stated on the step that ends each handler: where every sum fits, the call
\* returns Ok and stores the exact sums; where one does not, it fails with
\* MathOverflow.
C25_ExactOrMathOverflow ==
    [][ /\ (InFlight /\ Top.op = "buy_listing" /\ Top.pc = "finish") =>
              LET sales == BigAdd(Top.marketplace.total_sales, One)
                  volume == BigAdd(Top.marketplace.total_volume, Top.listing.price)
              IN  IF BigLeq(sales, U64_MAX) /\ BigLeq(volume, U64_MAX)
                  THEN /\ last'.res = "ok"
                       /\ chain'.marketplace.total_sales = sales
                       /\ chain'.marketplace.total_volume = volume
                  ELSE last'.res = "MathOverflow"
        /\ (InFlight /\ Top.op = "purchase_tickets" /\ Top.pc = "finish") =>
              LET sold == BigAdd(Top.event.tickets_sold, FromNat(Top.quantity))
                  sales == BigAdd(Top.venue.total_sales, FromNat(Top.quantity))
                  numbered == \A i \in 0..(Top.quantity - 1) :
                      /\ BigLeq(BigAdd(Top.event.tickets_sold, FromNat(i)), U32_MAX)
                      /\ BigLeq(BigAdd(Top.seat_start, FromNat(i)), U32_MAX)
              IN  IF BigLeq(sold, U32_MAX) /\ BigLeq(sales, U64_MAX) /\ numbered
                  THEN /\ last'.res = "ok"
                       /\ chain'.events[Top.key].tickets_sold = sold
                       /\ chain'.venues[Top.venue_key].total_sales = sales
                       /\ ghost'.reserved[Top.key][Len(ghost'.reserved[Top.key])]
                            = [start_ticket_number |-> Top.event.tickets_sold,
                               quantity |-> Top.quantity]
                  ELSE last'.res = "MathOverflow"
        /\ ListingCreatedNow =>
              last'.total_listings = BigAdd(last'.total_listings_before, One)
      ]_vars

\* C26: create_listing fails without effect when the marketplace is paused
\* (MarketplacePaused) or when expires_at <= now (InvalidExpiry), the accounts
\* being otherwise acceptable; when it succeeds it creates a Listing with
\* active = true and the given price, original_price and expires_at, creates
\* the paired guard Unlocked, increases the stored total_listings by exactly
\* 1, and moves no funds.
C26_CreateListingContract ==
    [][ \A k \in ListingKeys : Entry("create_listing", k) =>
          /\ (chain.marketplace.exists /\ chain.marketplace.paused) =>
                last'.res = "MarketplacePaused" /\ chain' = chain
          /\ (/\ chain.marketplace.exists /\ ~chain.marketplace.paused
              /\ ~chain.listings[k].exists /\ ~chain.guards[k].exists
              /\ last'.expires_at <= clock) =>
                last'.res = "InvalidExpiry" /\ chain' = chain
          /\ last'.res = "ok" =>
                /\ chain'.listings[k].exists /\ chain'.listings[k].active
                /\ chain'.listings[k].seller = k[1]
                /\ chain'.listings[k].price = last'.price
                /\ chain'.listings[k].original_price = last'.original_price
                /\ chain'.listings[k].expires_at = last'.expires_at
                /\ chain'.guards[k].exists /\ ~chain'.guards[k].is_locked
                /\ chain'.marketplace.total_listings =
                      BigAdd(chain.marketplace.total_listings, One)
                /\ chain'.lamports = chain.lamports ]_vars

\* a call of the bridge on the listing k starts and ends in this step
BridgeCalled(k) ==
    /\ last'.op = "list_ticket_on_marketplace" /\ last'.key = k
    /\ last'.step = "entry"
    /\ \/ last' # last
       \/ chain' # chain

\* C27: list_ticket_on_marketplace invokes create_listing only if all its
\* local checks pass; the call fails with ResaleNotAllowed where the event is
\* not resaleable, else with EventAlreadyStarted where now >= start_time,
\* else with PriceExceedsMax where price > floor(ticket_price * 110 / 100),
\* else with InvalidExpiry unless now < expires_at <= start_time; when a
\* check fails no listing is created.
C27_BridgeChecksBeforeInvoke ==
    [][ \A k \in ListingKeys : BridgeCalled(k) =>
          LET event == chain.events[last'.event]
              resaleable == event.resaleable
              before_start == clock < event.start_time
              capped == WithinCap(last'.price, event.ticket_price)
              expiry == clock < last'.expires_at /\ last'.expires_at <= event.start_time
              all == resaleable /\ before_start /\ capped /\ expiry
          IN  /\ last'.cpi # "none" => all
              /\ ~resaleable => last'.res = "ResaleNotAllowed"
              /\ (resaleable /\ ~before_start) => last'.res = "EventAlreadyStarted"
              /\ (resaleable /\ before_start /\ ~capped) =>
                    last'.res = "PriceExceedsMax"
              /\ (resaleable /\ before_start /\ capped /\ ~expiry) =>
                    last'.res = "InvalidExpiry"
              /\ ~all => last'.cpi = "none" /\ chain'.listings = chain.listings
      ]_vars

\* the bridge has invoked the marketplace program with a price exactly at
\* 110% of the ticket price, every local check having passed
C27_Witness ==
    /\ last.op = "list_ticket_on_marketplace" /\ last.cpi # "none"
    /\ AtCap(last.price, chain.events[last.event].ticket_price)
    /\ clock < last.expires_at

C29_SellerIsPaid ==
    (last.op = "buy_listing" /\ last.res = "ok") =>
        last.seller = last.listing_seller

\* the transfer buy_listing issues after the seller's, and after the fee's
AfterSeller(f) ==
    IF f.marketplace_fee # Zero THEN "transfer_fee"
    ELSE IF f.venue_royalty # Zero THEN "transfer_royalty" ELSE "finish"
AfterFee(f) == IF f.venue_royalty # Zero THEN "transfer_royalty" ELSE "finish"

\* C30: within one buy_listing call the fund movements occur in the order
\* buyer->seller, buyer->marketplace treasury, buyer->venue treasury; the
\* seller transfer is always issued, also for amount 0, and each of the two
\* others if and only if its amount is greater than zero; all of them occur
\* after the guard is acquired and before listing.active is cleared, the
\* counters are updated and the guard is released.
C30_TransferOrder ==
    [][ /\ \A k \in ListingKeys :
              (Entry("buy_listing", k) /\ last'.res = "in_flight") =>
                 LET f == stack'[Len(stack')]
                 IN  /\ f.pc = "transfer_seller"
                     /\ f.reentrancy_guard.is_locked /\ f.listing.active
                     /\ chain' = chain
        /\ (InFlight /\ Top.op = "buy_listing" /\ Transferred) =>
              LET f == Top
                  next == stack'[Len(stack)].pc
              IN  /\ f.reentrancy_guard.is_locked /\ f.listing.active
                  /\ chain'.listings = chain.listings
                  /\ chain'.guards = chain.guards
                  /\ chain'.marketplace = chain.marketplace
                  /\ f.pc = "transfer_seller" =>
                        /\ Moves(f.buyer, f.seller, f.seller_amount)
                        /\ next = AfterSeller(f)
                  /\ f.pc = "transfer_fee" =>
                        /\ f.marketplace_fee # Zero
                        /\ Moves(f.buyer, f.marketplace_treasury, f.marketplace_fee)
                        /\ next = AfterFee(f)
                  /\ f.pc = "transfer_royalty" =>
                        /\ f.venue_royalty # Zero
                        /\ Moves(f.buyer, f.venue_treasury, f.venue_royalty)
                        /\ next = "finish"
        /\ (InFlight /\ Top.op = "buy_listing" /\ Top.pc = "finish"
              /\ last'.res = "ok") =>
              /\ chain'.lamports = chain.lamports
              /\ chain'.listings[Top.key].exists =>
                    ~chain'.listings[Top.key].active
              /\ ~IsLocked(chain'.guards[Top.key])
      ]_vars

\* a free listing is being bought: the seller transfer was issued with
\* amount 0, the two others were skipped, and the handler is at its end
\* with the guard held and the listing still active
C30_Witness ==
    /\ InFlight /\ Top.op = "buy_listing" /\ Top.pc = "finish"
    /\ Top.seller_amount = Zero /\ Top.listing.price = Zero
    /\ Top.reentrancy_guard.is_locked
    /\ chain.listings[Top.key].exists /\ chain.listings[Top.key].active

C32_CancelIgnoresGuard ==
    [][ \A k \in ListingKeys :
          Entry("cancel_listing", k) =>
            /\ last'.res # "ReentrancyLocked"
            /\ (/\ chain.listings[k].exists
                /\ chain.listings[k].active
                /\ chain.listings[k].seller = last'.seller
                /\ chain.guards[k].exists)
               => /\ last'.res = "ok"
                  /\ chain'.listings[k] = NoAccount
                  /\ chain'.guards[k] = NoAccount
                  /\ stack' = stack ]_vars

\* a cancel_listing has just returned Ok from within the buy_listing of the
\* same listing, whose guard is Locked, and the two accounts are gone
C32_Witness ==
    /\ last.op = "cancel_listing" /\ last.res = "ok" /\ last.depth = 2
    /\ Depth = 1
    /\ stack[1].op = "buy_listing" /\ stack[1].key = last.key
    /\ stack[1].reentrancy_guard.is_locked
    /\ ~chain.listings[last.key].exists /\ ~chain.guards[last.key].exists

\* C33: for every price and every fee_bps <= 1000 whose two products fit in
\* 64 bits, floor(price*fee_bps/10000) + floor(price*500/10000) <= price, so
\* neither subtraction of seller_amount underflows: the amounts are computed
\* without MathOverflow and the three of them add up to the price.
C33_SubtractionsNeverUnderflow ==
    (last.op = "BuyAmounts" /\ last.key[2] <= 1000) =>
      LET price == last.key[1]
          marketplace_fee == MulDiv(price, last.key[2], BPS_DENOMINATOR)
          venue_royalty == MulDiv(price, VENUE_ROYALTY_BPS, BPS_DENOMINATOR)
      IN  (marketplace_fee.ok /\ venue_royalty.ok) =>
            /\ BigLeq(BigAdd(marketplace_fee.v, venue_royalty.v), price)
            /\ last.res = "ok"
            /\ BigAdd(last.out.seller_amount,
                      BigAdd(last.out.marketplace_fee, last.out.venue_royalty)) = price

\* the amounts of the largest price whose products fit, at the largest fee
C33_Witness ==
    /\ last.op = "BuyAmounts" /\ last.res = "ok"
    /\ last.key = <<BigDivSmall(U64_MAX, 1000), 1000>>
    /\ last.out.marketplace_fee # Zero /\ last.out.venue_royalty # Zero

\* the fields of a listing that are fixed at its creation
ListingTerms(listing) ==
    <<listing.seller, listing.ticket_asset_id, listing.event, listing.price,
      listing.original_price, listing.expires_at>>

\* C34: every existing listing, active or sold, satisfies price <=
\* floor(original_price * 110 / 100) (100 * price <= 110 * original_price),
\* and no step changes the price, original_price, seller, expires_at or asset
\* (or event) of a listing that exists before and after it: buy_listing
\* changes `active` only.
C34_ListingTermsFixed ==
    [][ \A k \in ListingKeys :
          chain'.listings[k].exists =>
            /\ WithinCap(chain'.listings[k].price, chain'.listings[k].original_price)
            /\ chain.listings[k].exists =>
                  ListingTerms(chain'.listings[k]) = ListingTerms(chain.listings[k]) ]_vars

\* a listing created exactly at the cap has been sold and is still on the
\* ledger with its terms
C34_Witness ==
    \E k \in ListingKeys :
      /\ chain.listings[k].exists /\ ~chain.listings[k].active
      /\ ghost.sold[k] = 1 /\ ~InFlight
      /\ chain.listings[k].price = Sol(55)
      /\ chain.listings[k].original_price = Sol(50)
      /\ chain.listings[k].expires_at \in ExpiryInputs

\* C35: no listing is both sold and cancelled: in every execution, the
\* reentrant ones included, no committed state has both a ListingSold and a
\* ListingCancelled record for one listing, and a listing whose funds were
\* moved by buy_listing is never destroyed by cancel_listing.
C35_NeverSoldAndCancelled ==
    ~InFlight => \A k \in ListingKeys : ~(ghost.sold[k] > 0 /\ ghost.cancelled[k] > 0)

\* C36: every listing create_listing accepts can be settled: with fee_bps <=
\* 1000 the products price * fee_bps and price * 500 of an accepted price fit
\* in 64 bits, so no buy_listing fails with MathOverflow in the computation
\* of the fee and the royalty (the step it is entered with).
C36_AcceptedListingsSettle ==
    ~(last.op = "buy_listing" /\ last.step = "entry" /\ last.res = "MathOverflow")

\* C37: one Listing per (seller, asset_id), and a sold listing and its guard
\* are never destroyed: a create_listing for a pair fails with AccountInUse
\* while the pair's listing exists, a listing that is on the ledger inactive
\* stays there with its guard, and once a ListingSold has been recorded for
\* the pair's listing no create_listing for the pair succeeds.
C37_OneListingPerPair ==
    [][ \A k \in ListingKeys :
          /\ (Entry("create_listing", k) /\ chain.listings[k].exists)
             => last'.res = "AccountInUse"
          /\ (chain.listings[k].exists /\ ~chain.listings[k].active)
             => chain'.listings[k].exists /\ chain'.guards[k].exists
          /\ (Entry("create_listing", k) /\ ghost.sold[k] > 0)
             => last'.res # "ok" ]_vars

\* C38: marketplace.paused is false in every state in which the marketplace
\* account exists, on the ledger and in every handler's copy of it: no
\* operation sets it, so no create_listing (and no other call) ends with
\* MarketplacePaused.
C38_NeverPaused ==
    /\ chain.marketplace.exists => ~chain.marketplace.paused
    /\ \A i \in DOMAIN stack :
         stack[i].op = "buy_listing" => ~stack[i].marketplace.paused
    /\ last.res # "MarketplacePaused"

\* initialize_marketplace has just created the marketplace, not paused
C38_Witness ==
    /\ last.op = "initialize_marketplace" /\ last.res = "ok"
    /\ chain.marketplace.exists /\ ~chain.marketplace.paused
    /\ chain.marketplace.fee_bps = last.fee_bps

\* C39: of an event's fields, purchase_tickets changes tickets_sold only:
\* tickets_reserved is 0 after every step, no step changes ticket_price,
\* total_tickets, start_time, the resaleable flag (or the venue) of an event,
\* and tickets_sold changes only in a step of purchase_tickets (its end, or
\* the rollback of a transaction a purchase_tickets fails in).
C39_PurchaseChangesSoldOnly ==
    [][ \A e \in EventKeys :
          /\ chain'.events[e].tickets_reserved = Zero
          /\ chain'.events[e] =
               [chain.events[e] EXCEPT !.tickets_sold = chain'.events[e].tickets_sold]
          /\ chain'.events[e].tickets_sold # chain.events[e].tickets_sold
             => last'.op = "purchase_tickets" ]_vars

\* a purchase has ended with Ok: tickets are sold, nothing is reserved, and
\* the event's terms are those it was created with
C39_Witness ==
    \E e \in EventKeys :
      /\ last.op = "purchase_tickets" /\ last.res = "ok" /\ last.key = e
      /\ chain.events[e].tickets_sold # Zero
      /\ chain.events[e].tickets_reserved = Zero
      /\ chain.events[e] =
           [InitEvents[e] EXCEPT !.tickets_sold = chain.events[e].tickets_sold]

\* C40: the two price-cap checks of Listing agree on every input: for every
\* (price, original_price) of u64 values is_within_price_cap returns true
\* exactly when validate_price_cap returns Ok, and is_within_price_cap is
\* true whenever price <= original_price.
C40_CapChecksAgree ==
    last.op = "price_cap" =>
      /\ last.out.within <=> last.res = "ok"
      /\ BigLeq(last.key[1], last.key[2]) => last.out.within

=============================================================================
